---- MODULE Spec2Model ----
(***************************************************************************)
(* The G-League scouting platform (Streamlit pages over BigQuery).         *)
(*                                                                         *)
(*  - Player Profiles (src/pages/3_Player_Profiles.py and its older copy   *)
(*    src/g_league_dbt/streamlit_app/pages/page_player.py): the loaded     *)
(*    table, the sidebar / selectbox choices of one script run, and the    *)
(*    radar-chart normalization, percentile and league-ranking             *)
(*    computations.                                                        *)
(*  - Player Search (src/pages/2_Player_Search.py): the query of           *)
(*    load_player_data and its classification, one script run of the       *)
(*    page, and the CSV exports (also of streamlit_app/test.py).           *)
(*  - The header-cleaning script src/scripts/clean_gcs_csv_headers.py.     *)
(*  - The server process: credentials (src/utils/bigquery_auth.py), the    *)
(*    client and data caches, and the script runs of the pages of          *)
(*    src/pages.                                                           *)
(*                                                                         *)
(* Numbers.  The pandas columns are float64.  A float is modelled as the   *)
(* fraction <<n, d>> in lowest terms with d > 0 that it denotes, and the   *)
(* float NaN (a null statistic) as <<0, 0>>.  Every float operation rounds *)
(* its exact result to the nearest float, ties to even, as IEEE 754 does,  *)
(* with a significand of MantissaBits bits instead of 53.                  *)
(***************************************************************************)
EXTENDS Integers, Sequences, FiniteSets, TLC

VARIABLES
    source,           \* rows of player_stats_gold held by the warehouse
    page,             \* which page script runs: "Player_Profiles" | "page_player"
    pc,               \* position of the script run inside main()
    df,               \* load_player_data() result of this run
    season_filter,    \* sidebar "Available Seasons" choice (Player_Profiles only)
    selected_player,  \* "Select a player" choice
    selected_season,  \* "Reference season" choice
    player_current,   \* <<row>> chosen for the selected player, <<>> before selection
    league_stats,     \* df[df['season'] == selected_season]
    radar,            \* player_values of create_radar_chart, <<>> before it ran
    metrics,          \* calculate_advanced_metrics result, <<>> before it ran
    season_stats,     \* the copy with the rank_* columns, <<>> before it ran
    shown,            \* what the League Rankings st.metric calls display
    err,              \* exception that ended the run, "" if none
    msg,              \* st.error / st.warning text that ended the run, "" if none
    norm_in,          \* arguments of one normalize_to_scale call
    norm_out,         \* its return value, <<>> before the call
    cls_in,           \* one player_percentiles row handed to final_classification
    cls_out,          \* its g_league_category, "" before the CASE was evaluated
    player_per_game,  \* rows of bronze.player_per_game_2022_2024
    nba_contracts,    \* rows of bronze.nba_contracts_complete
    search_results,   \* results of the evaluations of the Player Search query so far
    env,              \* credentials environment and state of the warehouse
    client_cache,     \* st.cache_resource entry of get_client, per page module
    data_cache,       \* st.cache_data entry of each loader: <<>> or <<[value, age]>>
    run,              \* <<outcome of the last page run>>, <<>> before any
    loader_calls,     \* the loader calls of the last page run, in order
    repaired,         \* the environment has become valid for good
    timeline,         \* the frame create_performance_timeline plots, <<>> before it ran
    auth,             \* <<outcome of one get_bigquery_client call>>, <<>> before it
    header,           \* a column name in the header line of a CSV file of the bucket
    cleanings,        \* the runs of clean_gcs_csv_headers.py over that file so far
    export_in,        \* <<row of the frame an export button writes>>
    export_out,       \* <<the row as written by to_csv>>, <<>> before the export
    filters,          \* <<sidebar choices of a Player Search run>>
    filtered_df,      \* rows of Player Search that pass the filters
    rendered          \* what the tabs of Player Search have drawn, in order

\* the Player Search query and its two source tables
searchVars == <<player_per_game, nba_contracts, search_results>>

\* the Streamlit server process: environment, caches, last page run
procVars == <<env, client_cache, data_cache, run, loader_calls, repaired>>

\* one call of get_bigquery_client
authVars == <<auth>>

\* the header-cleaning script and the file it rewrites
headerVars == <<header, cleanings>>

\* one CSV export
exportVars == <<export_in, export_out>>

\* a script run of the Player Search page
searchPageVars == <<filters, filtered_df, rendered>>

otherExtraVars == <<authVars, headerVars, exportVars, searchPageVars>>

\* the Timeline tab of a player-profile run, and the above
extraVars == <<timeline, otherExtraVars>>

vars == <<source, page, pc, df, season_filter, selected_player, selected_season,
          player_current, league_stats, radar, metrics, season_stats, shown, err, msg,
          norm_in, norm_out, cls_in, cls_out, searchVars, procVars, extraVars>>

\* the query has not been evaluated and no table is bound
SearchIdle == player_per_game = {} /\ nba_contracts = {} /\ search_results = <<>>

\* no server process is modelled
ProcIdle ==
    /\ env = <<>> /\ client_cache = <<>> /\ data_cache = <<>>
    /\ run = <<>> /\ loader_calls = <<>> /\ repaired = FALSE

AuthIdle == auth = <<>>
HeaderIdle == header = <<>> /\ cleanings = <<>>
ExportIdle == export_in = <<>> /\ export_out = <<>>
SearchPageIdle == filters = <<>> /\ filtered_df = <<>> /\ rendered = <<>>

\* no timeline has been drawn, and none of the above takes place
ExtraIdle == timeline = <<>> /\ AuthIdle /\ HeaderIdle /\ ExportIdle /\ SearchPageIdle

-----------------------------------------------------------------------------
(* Fractions and float arithmetic *)

NaN == <<0, 0>>

IsNaN(x) == x[2] = 0

Abs(n) == IF n < 0 THEN -n ELSE n

RECURSIVE GCD(_, _)
GCD(a, b) == IF b = 0 THEN a ELSE GCD(b, a % b)

\* the fraction n/d in lowest terms with a positive denominator (d # 0)
Frac(n, d) ==
    LET g == GCD(Abs(n), Abs(d))
        s == IF d < 0 THEN -1 ELSE 1
    IN  <<(s * n) \div g, (s * d) \div g>>

F(n) == <<n, 1>>

\* IEEE comparisons: every ordered comparison with NaN is False, NaN != x is True
Lt(a, b) == ~IsNaN(a) /\ ~IsNaN(b) /\ a[1] * b[2] < b[1] * a[2]
Le(a, b) == ~IsNaN(a) /\ ~IsNaN(b) /\ a[1] * b[2] <= b[1] * a[2]
Eq(a, b) == ~IsNaN(a) /\ ~IsNaN(b) /\ a[1] * b[2] = b[1] * a[2]
Ne(a, b) == ~Eq(a, b)

\* exact sum, difference, product and quotient of two fractions (nan if an
\* operand is nan, or for a zero divisor)
Add(a, b) == IF IsNaN(a) \/ IsNaN(b) THEN NaN
             ELSE Frac(a[1] * b[2] + b[1] * a[2], a[2] * b[2])
Sub(a, b) == IF IsNaN(a) \/ IsNaN(b) THEN NaN
             ELSE Frac(a[1] * b[2] - b[1] * a[2], a[2] * b[2])
Mul(a, b) == IF IsNaN(a) \/ IsNaN(b) THEN NaN
             ELSE Frac(a[1] * b[1], a[2] * b[2])
Div(a, b) == IF IsNaN(a) \/ IsNaN(b) \/ b[1] = 0 THEN NaN
             ELSE Frac(a[1] * b[2], a[2] * b[1])

\* bits of the significand of a float of the model (a float64 has 53)
MantissaBits == 12

\* <<m, k>>: the significand m of a / d * 2^e rounded to nearest, ties to even,
\* and the exponent k with which m * 2^k is the rounded value
RECURSIVE Significand(_, _, _)
Significand(a, d, e) ==
    IF a >= d * 2^MantissaBits THEN Significand(a, 2 * d, e + 1)
    ELSE IF a < d * 2^(MantissaBits - 1) THEN Significand(2 * a, d, e - 1)
    ELSE LET q  == a \div d
             r  == a % d
             up == 2 * r > d \/ (2 * r = d /\ q % 2 = 1)
         IN  <<IF up THEN q + 1 ELSE q, e>>

\* the float nearest to the fraction x (round to nearest, ties to even; no
\* overflow or underflow at the magnitudes of the model)
Fl(x) ==
    IF IsNaN(x) \/ x[1] = 0 THEN x
    ELSE IF x[2] = 1 /\ Abs(x[1]) < 2^MantissaBits THEN x  \* an integer that fits
    ELSE LET me == Significand(Abs(x[1]), x[2], 0)
             s  == IF x[1] < 0 THEN -1 ELSE 1
         IN  IF me[2] >= 0 THEN Frac(s * me[1] * 2^me[2], 1)
             ELSE Frac(s * me[1], 2^(-me[2]))

\* float +, -, *, /: the exact result rounded to a float
FAdd(a, b) == Fl(Add(a, b))
FSub(a, b) == Fl(Sub(a, b))
FMul(a, b) == Fl(Mul(a, b))
FDiv(a, b) == Fl(Div(a, b))

\* int(x) of a finite float: truncation toward zero
Trunc(x) == IF x[1] >= 0 THEN x[1] \div x[2] ELSE -((-x[1]) \div x[2])

\* Python's builtin min(a, b): b if b < a else a
PyMin(a, b) == IF Lt(b, a) THEN b ELSE a

-----------------------------------------------------------------------------
(* pandas Series reductions (skipna=True) and comparisons *)

Column(rows, c) == [i \in 1..Len(rows) |-> rows[i][c]]

NonNull(s) == {i \in 1..Len(s) : ~IsNaN(s[i])}

\* Series.min(): smallest non-null value, nan when there is none
SeriesMin(s) ==
    IF NonNull(s) = {} THEN NaN
    ELSE s[CHOOSE i \in NonNull(s) : \A j \in NonNull(s) : Le(s[i], s[j])]

\* Series.max(): largest non-null value, nan when there is none
SeriesMax(s) ==
    IF NonNull(s) = {} THEN NaN
    ELSE s[CHOOSE i \in NonNull(s) : \A j \in NonNull(s) : Le(s[j], s[i])]

RECURSIVE SumNonNull(_, _)
SumNonNull(s, i) ==
    IF i = 0 THEN F(0)
    ELSE IF IsNaN(s[i]) THEN SumNonNull(s, i - 1)
         ELSE FAdd(SumNonNull(s, i - 1), s[i])

\* Series.mean(): sum of the non-null values over their count, nan when none
SeriesMean(s) ==
    IF NonNull(s) = {} THEN NaN
    ELSE FDiv(SumNonNull(s, Len(s)), F(Cardinality(NonNull(s))))

\* variant: the nulls are dropped before the mean is taken
LessThanMeanDropNull(s, v) ==
    IF NonNull(s) = {} THEN NaN
    ELSE FDiv(F(Cardinality({i \in 1..Len(s) : Lt(s[i], v)})),
              F(Cardinality(NonNull(s))))

\* (series < value).mean(): share of True in the boolean series (a comparison
\* with a null is False and still counts as a row); nan for an empty series
LessThanMean(s, v) ==
    IF Len(s) = 0 THEN NaN
    ELSE FDiv(F(Cardinality({i \in 1..Len(s) : Lt(s[i], v)})), F(Len(s)))

\* f"{x:.0f}" / f"{x:.1f}": x rounded half-to-even to `digits` decimals
\* (kept as a number; "nan" for a null)
Pow10(digits) == IF digits = 0 THEN 1 ELSE 10
FormatFixed(x, digits) ==
    IF IsNaN(x) THEN NaN
    ELSE LET n == x[1] * Pow10(digits)
             d == x[2]
             neg == n < 0
             a == Abs(n)
             q == a \div d
             r == a % d
             up == 2 * r > d \/ (2 * r = d /\ q % 2 = 1)
             m == IF up THEN q + 1 ELSE q
         IN  Frac(IF neg THEN -m ELSE m, Pow10(digits))

-----------------------------------------------------------------------------
(* 3_Player_Profiles.py: radar chart *)

\* the games-in-season ceiling of the Availability dimension
GamesCap == 82

\* variant: the two "if ... != ... else 50" guards of the branches are missing
normalize_unguarded(player_val, min_val, avg_val, max_val) ==
    IF Eq(max_val, min_val) THEN F(50)
    ELSE IF Le(player_val, avg_val)
         THEN FDiv(FMul(F(50), FSub(player_val, min_val)), FSub(avg_val, min_val))
         ELSE FAdd(F(50), FDiv(FMul(F(50), FSub(player_val, avg_val)),
                             FSub(max_val, avg_val)))

\* variant: the upper branch forgets the 50 it starts from
normalize_upper_from_zero(player_val, min_val, avg_val, max_val) ==
    IF Eq(max_val, min_val) THEN F(50)
    ELSE IF Le(player_val, avg_val)
         THEN IF Ne(avg_val, min_val)
              THEN FDiv(FMul(F(50), FSub(player_val, min_val)), FSub(avg_val, min_val))
              ELSE F(50)
         ELSE IF Ne(max_val, avg_val)
              THEN FDiv(FMul(F(50), FSub(player_val, avg_val)), FSub(max_val, avg_val))
              ELSE F(50)

\* "Normalize value to 0-100 scale where 50 = average"
normalize_to_scale(player_val, min_val, avg_val, max_val) ==
    IF Eq(max_val, min_val) THEN F(50)
    ELSE IF Le(player_val, avg_val)
         THEN IF Ne(avg_val, min_val)
              THEN FDiv(FMul(F(50), FSub(player_val, min_val)), FSub(avg_val, min_val))
              ELSE F(50)
         ELSE IF Ne(max_val, avg_val)
              THEN FAdd(F(50), FDiv(FMul(F(50), FSub(player_val, avg_val)),
                                  FSub(max_val, avg_val)))
              ELSE F(50)

\* total_points + total_rebounds + total_assists of one row
Production(row) ==
    FAdd(FAdd(row.total_points, row.total_rebounds), row.total_assists)

\* the maximum handed to normalize_to_scale for Availability:
\* min(league_stats['games_played'].max(), 82)
AvailabilityMax(league) == PyMin(SeriesMax(Column(league, "games_played")), F(GamesCap))

\* player_values = [scoring, rebounding, playmaking, availability, production]
create_radar_chart(player_stats, league) ==
    LET pts  == Column(league, "points_per_game")
        reb  == Column(league, "rebounds_per_game")
        ast  == Column(league, "assists_per_game")
        gp   == Column(league, "games_played")
        prod == [i \in 1..Len(league) |-> Production(league[i])]
    IN  << normalize_to_scale(player_stats.points_per_game,
                              SeriesMin(pts), SeriesMean(pts), SeriesMax(pts)),
           normalize_to_scale(player_stats.rebounds_per_game,
                              SeriesMin(reb), SeriesMean(reb), SeriesMax(reb)),
           normalize_to_scale(player_stats.assists_per_game,
                              SeriesMin(ast), SeriesMean(ast), SeriesMax(ast)),
           normalize_to_scale(player_stats.games_played,
                              SeriesMin(gp), SeriesMean(gp), AvailabilityMax(league)),
           normalize_to_scale(Production(player_stats),
                              SeriesMin(prod), SeriesMean(prod), SeriesMax(prod)) >>

-----------------------------------------------------------------------------
(* 3_Player_Profiles.py: advanced metrics *)

\* variant: <= instead of <
PercentileInclusive(player_stats, league, stat) ==
    LET s == Column(league, stat)
    IN  IF Len(s) = 0 THEN NaN
        ELSE FMul(FDiv(F(Cardinality({i \in 1..Len(s) : Le(s[i], player_stats[stat])})),
                       F(Len(s))),
                  F(100))

\* (league_stats[stat] < player_stats[stat]).mean() * 100
Percentile(player_stats, league, stat) ==
    FMul(LessThanMean(Column(league, stat), player_stats[stat]), F(100))

\* variant: the maximum is taken of an empty frame too
max_games_unguarded(league) == SeriesMax(Column(league, "games_played"))

\* league_stats['games_played'].max() if len(league_stats) > 0 else 82
max_games(league) ==
    IF Len(league) > 0 THEN SeriesMax(Column(league, "games_played")) ELSE F(GamesCap)

calculate_advanced_metrics(player_stats, league) ==
    LET availability ==
            FMul(FDiv(player_stats.games_played, max_games(league)), F(100))
        total_production == Production(player_stats)
        production_per_game ==
            IF Lt(F(0), player_stats.games_played)
            THEN FDiv(total_production, player_stats.games_played)
            ELSE F(0)
        points_percentile   == Percentile(player_stats, league, "points_per_game")
        rebounds_percentile == Percentile(player_stats, league, "rebounds_per_game")
        assists_percentile  == Percentile(player_stats, league, "assists_per_game")
    IN  [ \* the three locals of lines 221-223, before formatting
          points_percentile   |-> points_percentile,
          rebounds_percentile |-> rebounds_percentile,
          assists_percentile  |-> assists_percentile,
          \* the returned dict
          Games_Played          |-> player_stats.games_played,
          Availability          |-> FormatFixed(availability, 1),
          Total_Production_Game |-> FormatFixed(production_per_game, 1),
          Points_Percentile     |-> FormatFixed(points_percentile, 0),
          Rebounds_Percentile   |-> FormatFixed(rebounds_percentile, 0),
          Assists_Percentile    |-> FormatFixed(assists_percentile, 0) ]

-----------------------------------------------------------------------------
(* League Rankings: Series.rank(ascending=False), pandas defaults             *)
(* method='average', na_option='keep'                                         *)

\* variant: rank(ascending=True)
RankAscending(s) ==
    [i \in 1..Len(s) |->
        IF IsNaN(s[i]) THEN NaN
        ELSE LET g == Cardinality({j \in 1..Len(s) : Lt(s[j], s[i])})
                 e == Cardinality({j \in 1..Len(s) : Eq(s[i], s[j])})
             IN  Frac(2 * g + e + 1, 2)]

\* variant: rank(ascending=False, method='dense')
RankDense(s) ==
    [i \in 1..Len(s) |->
        IF IsNaN(s[i]) THEN NaN
        ELSE F(1 + Cardinality({s[j] : j \in {k \in 1..Len(s) : Lt(s[i], s[k])}}))]

\* variant: rank(ascending=False, method='min')
RankMin(s) ==
    [i \in 1..Len(s) |->
        IF IsNaN(s[i]) THEN NaN
        ELSE F(1 + Cardinality({j \in 1..Len(s) : Lt(s[i], s[j])}))]

\* rank of s[i] among the non-null values in descending order: the mean of the
\* positions g+1 .. g+e that the e rows equal to s[i] occupy after the g rows
\* with a greater value; a null keeps nan
RankDescending(s) ==
    [i \in 1..Len(s) |->
        IF IsNaN(s[i]) THEN NaN
        ELSE LET g == Cardinality({j \in 1..Len(s) : Lt(s[i], s[j])})
                 e == Cardinality({j \in 1..Len(s) : Eq(s[i], s[j])})
             IN  Frac(2 * g + e + 1, 2)]

\* df[df['season'] == selected_season].copy() with the three rank columns
WithRanks(rows) ==
    LET rp == RankDescending(Column(rows, "points_per_game"))
        rr == RankDescending(Column(rows, "rebounds_per_game"))
        ra == RankDescending(Column(rows, "assists_per_game"))
    IN  [i \in 1..Len(rows) |->
            [row |-> rows[i], rank_points |-> rp[i],
             rank_rebounds |-> rr[i], rank_assists |-> ra[i]]]

-----------------------------------------------------------------------------
(* The warehouse table player_stats_gold *)

\* most rows a table of the model holds
MaxRows == 3

PlayerNames == <<"A", "B", "C">>
SeasonValues == {2023, 2024}

\* stat lines a row can carry: <<points_per_game, rebounds_per_game,
\* assists_per_game, games_played, total_points, total_rebounds, total_assists>>
StatLines ==
    { << F(10), F(26), F(20), F(10), F(50),  F(30),  F(20) >>,
      << F(20), F(4),  F(30), F(50), F(100), F(100), F(65) >>,
      << F(30), F(15), F(10), F(90), F(200), F(130), F(100) >>,
      << NaN,   F(15), NaN,   F(82), F(0),   F(30),  F(0) >> }

Row(key, line) ==
    [ player |-> PlayerNames[key[2]], season |-> key[1],
      points_per_game |-> line[1], rebounds_per_game |-> line[2],
      assists_per_game |-> line[3], games_played |-> line[4],
      total_points |-> line[5], total_rebounds |-> line[6],
      total_assists |-> line[7] ]

\* (season, player) identifies a row
Keys == SeasonValues \X (1..Len(PlayerNames))

\* ORDER BY season DESC, player
KeyBefore(a, b) == a[1] > b[1] \/ (a[1] = b[1] /\ a[2] < b[2])

RECURSIVE OrderBy(_)
OrderBy(K) ==
    IF K = {} THEN <<>>
    ELSE LET k == CHOOSE x \in K : \A y \in K \ {x} : KeyBefore(x, y)
         IN  <<k>> \o OrderBy(K \ {k})

\* every result of the SELECT * query: at most MaxRows rows, one per
\* (player, season), in the query's order
SourceTables ==
    UNION { { [i \in 1..Cardinality(K) |-> Row(OrderBy(K)[i], f[OrderBy(K)[i]])]
              : f \in [K -> StatLines] }
            : K \in {X \in SUBSET Keys : Cardinality(X) <= MaxRows} }

Pages == {"Player_Profiles", "page_player"}

-----------------------------------------------------------------------------
(* DataFrame selections used by main() *)

\* df[df['season'] == s]
WhereSeason(rows, s) == SelectSeq(rows, LAMBDA r : r.season = s)

\* df[df['player'] == p]
WherePlayer(rows, p) == SelectSeq(rows, LAMBDA r : r.player = p)

\* df['season'].unique() / df['player'].unique()
UniqueSeasons(rows) == {rows[i].season : i \in 1..Len(rows)}
UniquePlayers(rows) == {rows[i].player : i \in 1..Len(rows)}

\* player_data[season == selected_season].iloc[0] if that is not empty,
\* else player_data.iloc[0]
PlayerCurrent(rows, p, s) ==
    LET player_data == WherePlayer(rows, p)
    IN  IF WhereSeason(player_data, s) # <<>>
        THEN WhereSeason(player_data, s)[1]
        ELSE player_data[1]

-----------------------------------------------------------------------------
(* One script run of a player-profile page *)

NoRun ==
    /\ df = <<>> /\ season_filter = 0 /\ selected_player = "" /\ selected_season = 0
    /\ player_current = <<>> /\ league_stats = <<>> /\ radar = <<>> /\ metrics = <<>>
    /\ season_stats = <<>> /\ shown = <<>> /\ err = "" /\ msg = ""

Init ==
    /\ SearchIdle /\ ProcIdle /\ ExtraIdle
    /\ source \in SourceTables
    /\ page \in Pages
    /\ pc = "start"
    /\ NoRun
    /\ norm_in = <<>> /\ norm_out = <<>>
    /\ cls_in = <<>> /\ cls_out = ""

\* load_player_data() and the df.empty check of main(): the query result, or the
\* empty DataFrame when the client is None or the query raises
Load ==
    /\ pc = "start"
    /\ \E ok \in BOOLEAN : df' = IF ok THEN source ELSE <<>>
    /\ IF df' = <<>>
       THEN /\ msg' = "Failed to load data."
            /\ pc' = "done"
       ELSE /\ msg' = msg
            /\ pc' = "loaded"
    /\ UNCHANGED <<source, page, season_filter, selected_player, selected_season,
                   player_current, league_stats, radar, metrics, season_stats,
                   shown, err, norm_in, norm_out, cls_in, cls_out,
                   searchVars, procVars, extraVars>>

\* 3_Player_Profiles.py: the sidebar season selectbox over sorted(df['season'].unique())
SelectSeason ==
    /\ pc = "loaded"
    /\ page = "Player_Profiles"
    /\ \E s \in UniqueSeasons(df) : season_filter' = s
    /\ pc' = "season"
    /\ UNCHANGED <<source, page, df, selected_player, selected_season, player_current,
                   league_stats, radar, metrics, season_stats, shown, err, msg,
                   norm_in, norm_out, cls_in, cls_out,
                   searchVars, procVars, extraVars>>

\* the frame the player and reference-season selectboxes draw their options from:
\* filtered_df in 3_Player_Profiles.py, the whole df in page_player.py
OptionsFrame ==
    IF page = "Player_Profiles" THEN WhereSeason(df, season_filter) ELSE df

\* the "Select a player" and "Reference season" selectboxes, then player_data,
\* player_current and league_stats
SelectPlayer ==
    /\ \/ pc = "season" /\ page = "Player_Profiles"
       \/ pc = "loaded" /\ page = "page_player"
    /\ IF UniquePlayers(OptionsFrame) = {}
       THEN /\ msg' = "No players match your filters."
            /\ pc' = "done"
            /\ UNCHANGED <<selected_player, selected_season, player_current,
                           league_stats>>
       ELSE /\ \E p \in UniquePlayers(OptionsFrame), s \in UniqueSeasons(OptionsFrame) :
                  /\ selected_player' = p
                  /\ selected_season' = s
                  /\ player_current' = <<PlayerCurrent(df, p, s)>>
                  /\ league_stats' = WhereSeason(df, s)
            /\ msg' = msg
            /\ pc' = "selected"
    /\ UNCHANGED <<source, page, df, season_filter, radar, metrics, season_stats,
                   shown, err, norm_in, norm_out, cls_in, cls_out,
                   searchVars, procVars, extraVars>>

\* tab1: st.plotly_chart(create_radar_chart(player_current, league_stats, ...))
RadarChart ==
    /\ pc = "selected"
    /\ page = "Player_Profiles"
    /\ radar' = create_radar_chart(player_current[1], league_stats)
    /\ pc' = "radar"
    /\ UNCHANGED <<source, page, df, season_filter, selected_player, selected_season,
                   player_current, league_stats, metrics, season_stats, shown, err,
                   msg, norm_in, norm_out, cls_in, cls_out,
                   searchVars, procVars, extraVars>>

\* player_data.sort_values('season'): the rows in ascending season order, rows
\* of one season in their order in the frame
RECURSIVE SortValuesSeason(_)
SortValuesSeason(rows) ==
    IF rows = <<>> THEN <<>>
    ELSE LET lo == CHOOSE s \in UniqueSeasons(rows) : \A t \in UniqueSeasons(rows) : s <= t
         IN  WhereSeason(rows, lo) \o
             SortValuesSeason(SelectSeq(rows, LAMBDA r : r.season # lo))

\* create_performance_timeline: the copy of the frame handed in with the column
\* season_clean = season.astype(int), which the three traces are plotted against
create_performance_timeline(player_history_df) ==
    [i \in 1..Len(player_history_df) |->
        [ row |-> player_history_df[i],
          season_clean |-> Trunc(F(player_history_df[i].season)) ]]

\* tab2: the timeline of the selected player's rows of all seasons when there
\* is more than one, st.info("No historical data") otherwise
Timeline ==
    /\ pc = "radar"
    /\ LET player_data == WherePlayer(df, selected_player)
       IN  timeline' = IF Len(player_data) > 1
                       THEN create_performance_timeline(SortValuesSeason(player_data))
                       ELSE <<>>
    /\ pc' = "timeline"
    /\ UNCHANGED <<source, page, df, season_filter, selected_player, selected_season,
                   player_current, league_stats, radar, metrics, season_stats, shown,
                   err, msg, norm_in, norm_out, cls_in, cls_out,
                   searchVars, procVars, otherExtraVars>>

\* "Advanced Metrics": metrics = calculate_advanced_metrics(player_current, league_stats)
AdvancedMetrics ==
    /\ pc = "timeline"
    /\ metrics' = <<calculate_advanced_metrics(player_current[1], league_stats)>>
    /\ pc' = "metrics"
    /\ UNCHANGED <<source, page, df, season_filter, selected_player, selected_season,
                   player_current, league_stats, radar, season_stats, shown, err,
                   msg, norm_in, norm_out, cls_in, cls_out,
                   searchVars, procVars, extraVars>>

\* the rows of season_stats that belong to the selected player
OwnRanks(stats, p) == SelectSeq(stats, LAMBDA r : r.row.player = p)

\* variant: the rank columns are assigned to df itself
league_rankings_in_place(d, s) ==
    [ df |-> WithRanks(d), season_stats |-> WithRanks(WhereSeason(d, s)) ]

\* season_stats = df[df['season'] == selected_season].copy() and the three
\* assignments season_stats['rank_*'] = ...: the frames df and season_stats
\* after these four statements
league_rankings(d, s) ==
    [ df |-> d, season_stats |-> WithRanks(WhereSeason(d, s)) ]

\* "League Rankings": the ranked copy, the selected player's first row of it, and
\* the three st.metric calls "#{int(rank)}" / "out of {len(season_stats)}".
\* .iloc[0] of an empty selection raises IndexError, int(nan) raises ValueError.
LeagueRankings ==
    /\ \/ pc = "metrics" /\ page = "Player_Profiles"
       \/ pc = "selected" /\ page = "page_player"
    /\ df' = league_rankings(df, selected_season).df
    /\ season_stats' = league_rankings(df, selected_season).season_stats
    /\ LET own == OwnRanks(season_stats', selected_player)
       IN  IF own = <<>>
           THEN /\ err' = "IndexError" /\ pc' = "error" /\ shown' = shown
           ELSE IF \/ IsNaN(own[1].rank_points)
                   \/ IsNaN(own[1].rank_rebounds)
                   \/ IsNaN(own[1].rank_assists)
           THEN /\ err' = "ValueError" /\ pc' = "error" /\ shown' = shown
           ELSE /\ shown' = << [ rank_points   |-> Trunc(own[1].rank_points),
                                 rank_rebounds |-> Trunc(own[1].rank_rebounds),
                                 rank_assists  |-> Trunc(own[1].rank_assists),
                                 out_of        |-> Len(season_stats') ] >>
                /\ err' = err
                /\ pc' = "done"
    /\ UNCHANGED <<source, page, season_filter, selected_player, selected_season,
                   player_current, league_stats, radar, metrics, msg, norm_in,
                   norm_out, cls_in, cls_out,
                   searchVars, procVars, extraVars>>

\* a widget interaction starts the next run of the script
Rerun ==
    /\ pc \in {"done", "error"}
    /\ pc' = "start"
    /\ df' = <<>> /\ season_filter' = 0 /\ selected_player' = ""
    /\ selected_season' = 0 /\ player_current' = <<>> /\ league_stats' = <<>>
    /\ radar' = <<>> /\ metrics' = <<>> /\ season_stats' = <<>> /\ shown' = <<>>
    /\ err' = "" /\ msg' = "" /\ timeline' = <<>>
    /\ UNCHANGED <<source, page, norm_in, norm_out, cls_in, cls_out,
                   searchVars, procVars, otherExtraVars>>

Next ==
    \/ Load
    \/ SelectSeason
    \/ SelectPlayer
    \/ RadarChart
    \/ Timeline
    \/ AdvancedMetrics
    \/ LeagueRankings
    \/ Rerun

Spec == Init /\ [][Next]_vars

-----------------------------------------------------------------------------
(* normalize_to_scale on its own: one call with arbitrary arguments *)

\* the arguments are multiples of 5/2 up to MaxNormStep * 5/2
MaxNormStep == 12

NormValues == {Frac(5 * k, 2) : k \in 0..MaxNormStep}

\* <<player_val, min_val, avg_val, max_val>> with min <= avg <= max, as the
\* minimum, mean and maximum of a population are
NormInputs ==
    {a \in NormValues \X NormValues \X NormValues \X NormValues :
        Le(a[2], a[3]) /\ Le(a[3], a[4])}

InitNorm ==
    /\ SearchIdle /\ ProcIdle /\ ExtraIdle
    /\ source = <<>>
    /\ page = "Player_Profiles"
    /\ pc = "norm"
    /\ NoRun
    /\ norm_in \in NormInputs
    /\ norm_out = <<>>
    /\ cls_in = <<>> /\ cls_out = ""

NormalizeCall ==
    /\ pc = "norm"
    /\ norm_out' = <<normalize_to_scale(norm_in[1], norm_in[2], norm_in[3], norm_in[4])>>
    /\ pc' = "normed"
    /\ UNCHANGED <<source, page, df, season_filter, selected_player, selected_season,
                   player_current, league_stats, radar, metrics, season_stats, shown,
                   err, msg, norm_in, cls_in, cls_out,
                   searchVars, procVars, extraVars>>

NextNorm == NormalizeCall

SpecNorm == InitNorm /\ [][NextNorm]_vars

-----------------------------------------------------------------------------
(* create_radar_chart and calculate_advanced_metrics on their own: one call   *)
(* of each with an arbitrary subject and an arbitrary population, the empty   *)
(* one included                                                               *)

\* a frame of n rows, row i carrying the stat line f[i]
EngineFrame(f) == [i \in 1..Len(f) |-> Row(<<2024, i>>, f[i])]

EngineFrames ==
    UNION { {EngineFrame(f) : f \in [1..n -> StatLines]} : n \in 0..MaxRows }

InitEngine ==
    /\ SearchIdle /\ ProcIdle /\ ExtraIdle
    /\ source = <<>>
    /\ page = "Player_Profiles"
    /\ pc = "engine"
    /\ df = <<>> /\ season_filter = 0 /\ selected_player = "" /\ selected_season = 0
    /\ \E line \in StatLines : player_current = <<Row(<<2024, 1>>, line)>>
    /\ league_stats \in EngineFrames
    /\ radar = <<>> /\ metrics = <<>>
    /\ season_stats = <<>> /\ shown = <<>> /\ err = "" /\ msg = ""
    /\ norm_in = <<>> /\ norm_out = <<>>
    /\ cls_in = <<>> /\ cls_out = ""

EngineRadar ==
    /\ pc = "engine"
    /\ radar' = create_radar_chart(player_current[1], league_stats)
    /\ pc' = "engine_radar"
    /\ UNCHANGED <<source, page, df, season_filter, selected_player, selected_season,
                   player_current, league_stats, metrics, season_stats, shown, err,
                   msg, norm_in, norm_out, cls_in, cls_out,
                   searchVars, procVars, extraVars>>

EngineMetrics ==
    /\ pc = "engine_radar"
    /\ metrics' = <<calculate_advanced_metrics(player_current[1], league_stats)>>
    /\ pc' = "engine_done"
    /\ UNCHANGED <<source, page, df, season_filter, selected_player, selected_season,
                   player_current, league_stats, radar, season_stats, shown, err,
                   msg, norm_in, norm_out, cls_in, cls_out,
                   searchVars, procVars, extraVars>>

NextEngine ==
    \/ EngineRadar
    \/ EngineMetrics

SpecEngine == InitEngine /\ [][NextEngine]_vars

-----------------------------------------------------------------------------
(* 2_Player_Search.py: the final_classification CTE of load_player_data.      *)
(* A nullable SQL value is <<>> (NULL) or <<v>>; a SQL condition is "T", "F"  *)
(* or "U" (NULL), and a WHEN branch is taken only on "T".                     *)

SqlLe(a, b) == IF a = <<>> \/ b = <<>> THEN "U" ELSE IF a[1] <= b[1] THEN "T" ELSE "F"

SqlAnd(x, y) ==
    IF x = "F" \/ y = "F" THEN "F" ELSE IF x = "T" /\ y = "T" THEN "T" ELSE "U"

SqlOr(x, y) ==
    IF x = "T" \/ y = "T" THEN "T" ELSE IF x = "F" /\ y = "F" THEN "F" ELSE "U"

\* x BETWEEN lo AND hi
SqlBetween(x, lo, hi) == SqlAnd(SqlLe(<<lo>>, x), SqlLe(x, <<hi>>))

\* x IN (list) for a non-null x and a list without NULL
SqlIn(x, list) == IF x \in list THEN "T" ELSE "F"

AvailableStatuses ==
    {"Free Agent / No Contract Data", "Expiring Contract", "Uncontracted", "Free Agent"}

\* the age ceiling of both rules
AgeLimit == 28

\* variant: the first rule's bands end below 25 (BETWEEN 0 AND 24)
StrugglingCondition_below25(r) ==
    SqlAnd(SqlAnd(SqlOr(SqlOr(SqlBetween(<<r.pts_percentile>>, 0, 24),
                              SqlBetween(<<r.trb_percentile>>, 0, 24)),
                        SqlBetween(<<r.ast_percentile>>, 0, 24)),
                  SqlIn(r.contract_status, AvailableStatuses)),
           SqlLe(r.age, <<AgeLimit>>))

\* WHEN (pts BETWEEN 0 AND 25 OR trb ... OR ast ...) AND contract_status IN (...)
\*      AND age <= 28
StrugglingCondition(r) ==
    SqlAnd(SqlAnd(SqlOr(SqlOr(SqlBetween(<<r.pts_percentile>>, 0, 25),
                              SqlBetween(<<r.trb_percentile>>, 0, 25)),
                        SqlBetween(<<r.ast_percentile>>, 0, 25)),
                  SqlIn(r.contract_status, AvailableStatuses)),
           SqlLe(r.age, <<AgeLimit>>))

\* WHEN (pts BETWEEN 25 AND 75 AND trb ... AND ast ... AND ts ...)
\*      AND contract_status IN (...) AND age <= 28
WellRoundedCondition(r) ==
    SqlAnd(SqlAnd(SqlAnd(SqlAnd(SqlAnd(SqlBetween(<<r.pts_percentile>>, 25, 75),
                                       SqlBetween(<<r.trb_percentile>>, 25, 75)),
                                SqlBetween(<<r.ast_percentile>>, 25, 75)),
                         SqlBetween(<<r.ts_percentile>>, 25, 75)),
                  SqlIn(r.contract_status, AvailableStatuses)),
           SqlLe(r.age, <<AgeLimit>>))

\* variant: the two WHEN branches in the other order
g_league_category_swapped(r) ==
    IF WellRoundedCondition(r) = "T" THEN "Well-Rounded Average"
    ELSE IF StrugglingCondition(r) = "T" THEN "NBA Struggling / G-League Potential"
    ELSE "Not G-League Target"

\* CASE WHEN ... THEN ... WHEN ... THEN ... ELSE ... END AS g_league_category
g_league_category(r) ==
    IF StrugglingCondition(r) = "T" THEN "NBA Struggling / G-League Potential"
    ELSE IF WellRoundedCondition(r) = "T" THEN "Well-Rounded Average"
    ELSE "Not G-League Target"

\* NTILE(100) values tried for each of the four percentiles
PercentileValues == {1, 25, 26, 75, 76, 100}

\* the six contract_status labels the joined CTE produces
ContractStatuses ==
    AvailableStatuses \cup {"1 Year Left", "Multi-Year Contract"}

\* ages tried: NULL, below, at and above the ceiling
AgeValues == {<<>>, <<19>>, <<AgeLimit>>, <<AgeLimit + 1>>}

ClassifyInputs ==
    [ pts_percentile : PercentileValues, trb_percentile : PercentileValues,
      ast_percentile : PercentileValues, ts_percentile : PercentileValues,
      contract_status : ContractStatuses, age : AgeValues ]

InitClassify ==
    /\ SearchIdle /\ ProcIdle /\ ExtraIdle
    /\ source = <<>>
    /\ page = "Player_Search"
    /\ pc = "classify"
    /\ NoRun
    /\ norm_in = <<>> /\ norm_out = <<>>
    /\ cls_in \in {<<r>> : r \in ClassifyInputs}
    /\ cls_out = ""

Classify ==
    /\ pc = "classify"
    /\ cls_out' = g_league_category(cls_in[1])
    /\ pc' = "classified"
    /\ UNCHANGED <<source, page, df, season_filter, selected_player, selected_season,
                   player_current, league_stats, radar, metrics, season_stats, shown,
                   err, msg, norm_in, norm_out, cls_in,
                   searchVars, procVars, extraVars>>

NextClassify == Classify

SpecClassify == InitClassify /\ [][NextClassify]_vars

-----------------------------------------------------------------------------
(* 2_Player_Search.py: the query of load_player_data, CTE by CTE.  A table is *)
(* a set of rows, a string that the query inspects is a sequence of           *)
(* characters, a nullable value is <<>> (NULL) or <<v>>.  The pass-through    *)
(* columns mp, stl, blk and the contract columns after 202728 are left out.   *)

\* most rows of player_per_game in a table of the model
MaxSearchRows == 3

\* team LIKE '%TM'
EndsWithTM(team) ==
    Len(team) >= 2 /\ team[Len(team) - 1] = "T" /\ team[Len(team)] = "M"

\* TRIM(name)
RECURSIVE TrimLeft(_)
TrimLeft(n) == IF n # <<>> /\ Head(n) = " " THEN TrimLeft(Tail(n)) ELSE n
RECURSIVE TrimRight(_)
TrimRight(n) ==
    IF n # <<>> /\ n[Len(n)] = " " THEN TrimRight(SubSeq(n, 1, Len(n) - 1)) ELSE n
Trim(n) == TrimRight(TrimLeft(n))

\* LOWER(name), over the letters that occur in the names of the model
LowerChar(c) ==
    CASE c = "A" -> "a" [] c = "B" -> "b" [] c = "C" -> "c" [] OTHER -> c
Lower(n) == [i \in 1..Len(n) |-> LowerChar(n[i])]

\* CASE WHEN (fga + 0.44 * fta) > 0 THEN pts / (2 * (fga + 0.44 * fta)) ELSE NULL END
ts_pct(r) ==
    LET den == FAdd(r.fga, FMul(Fl(Frac(44, 100)), r.fta))
    IN  IF Lt(F(0), den) THEN <<FDiv(r.pts, FMul(F(2), den))>> ELSE <<>>

\* ORDER BY g DESC, pts_per_game DESC, CASE WHEN team LIKE '%TM' THEN 1 ELSE 0 END:
\* row a sorts strictly before row b
TMFlag(r) == IF EndsWithTM(r.team) THEN 1 ELSE 0
RowBefore(a, b) ==
    \/ Lt(b.g, a.g)
    \/ Eq(a.g, b.g) /\ Lt(b.pts, a.pts)
    \/ Eq(a.g, b.g) /\ Eq(a.pts, b.pts) /\ TMFlag(a) < TMFlag(b)

\* the rows of a player that ROW_NUMBER() can number 1: those no other row of
\* the player sorts before
FirstRows(S, p) ==
    {r \in S : r.player = p /\ \A q \in S : q.player = p => ~RowBefore(q, r)}

\* stats_raw WHERE season = 2024, then stats: the rn = 1 row of every player,
\* with ts_pct; every table the two CTEs can produce
stats(T) ==
    LET S == {r \in T : r.season = 2024}
        P == {r.player : r \in S}
    IN  { { [ Player |-> f[p].player, Team |-> f[p].team, Pos |-> f[p].pos,
              age |-> f[p].age, ts_pct |-> ts_pct(f[p]), pts |-> f[p].pts,
              trb |-> f[p].trb, ast |-> f[p].ast ] : p \in P }
          : f \in {g \in [P -> S] : \A p \in P : g[p] \in FirstRows(S, p)} }

Coalesce(x, d) == IF x = <<>> THEN d ELSE x[1]

\* the CASE of the joined CTE; c is <<>> when the LEFT JOIN found no contract
contract_status(c) ==
    IF c = <<>> THEN "Free Agent / No Contract Data"
    ELSE IF c[1].uncontracted = <<TRUE>> THEN "Uncontracted"
    ELSE IF Coalesce(c[1].y202526, 0) = 0 /\ Coalesce(c[1].y202627, 0) = 0
         THEN "Free Agent"
    ELSE IF Coalesce(c[1].y202627, 0) = 0 /\ Coalesce(c[1].y202526, 0) > 0
         THEN "Expiring Contract"
    ELSE IF Coalesce(c[1].y202627, 0) > 0 /\ Coalesce(c[1].y202728, 0) = 0
         THEN "1 Year Left"
    ELSE "Multi-Year Contract"

JoinedRow(s, c) ==
    [ Player |-> s.Player, Team |-> s.Team, Pos |-> s.Pos, age |-> s.age,
      ts_pct |-> s.ts_pct, pts |-> s.pts, trb |-> s.trb, ast |-> s.ast,
      contract |-> c, contract_status |-> contract_status(c) ]

\* stats s LEFT JOIN contracts c ON LOWER(TRIM(s.Player)) = LOWER(TRIM(c.player)):
\* one row per matching contract, one row without contract when none matches
joined(S, C) ==
    UNION { LET M == {c \in C : Lower(Trim(s.Player)) = Lower(Trim(c.player))}
            IN  IF M = {} THEN {JoinedRow(s, <<>>)}
                ELSE {JoinedRow(s, <<c>>) : c \in M}
            : s \in S }

\* the number of buckets of the four NTILE windows
NtileBuckets == 100

\* NTILE(buckets) of the row numbered i among n: the first n % buckets buckets
\* hold n \div buckets + 1 rows, the others n \div buckets
Ntile(i, n, buckets) ==
    LET q == n \div buckets
        r == n % buckets
    IN  IF i <= r * (q + 1) THEN (i - 1) \div (q + 1) + 1
        ELSE r + (i - r * (q + 1) - 1) \div q + 1

\* the row numberings a window OVER (PARTITION BY part ORDER BY key) can use,
\* part and key being the columns as functions of the row: in each partition a
\* bijection onto 1..size that ascends with the key; the order of rows with
\* equal keys is not determined by the query
WindowOrders(R, part, key) ==
    {f \in [R -> 1..Cardinality(R)] :
        \A a \in R :
            /\ f[a] <= Cardinality({b \in R : part[b] = part[a]})
            /\ \A b \in R \ {a} :
                  part[a] = part[b] =>
                      /\ f[a] # f[b]
                      /\ Lt(key[a], key[b]) => f[a] < f[b]}

\* one row of player_percentiles, then of final_classification
PercentileRow(R, j, fp, ft, fa, fs) ==
    LET n == Cardinality({b \in R : b.Pos = j.Pos})
        pr == [ pts_percentile |-> Ntile(fp[j], n, NtileBuckets),
                trb_percentile |-> Ntile(ft[j], n, NtileBuckets),
                ast_percentile |-> Ntile(fa[j], n, NtileBuckets),
                ts_percentile  |-> Ntile(fs[j], Cardinality(R), NtileBuckets),
                contract_status |-> j.contract_status, age |-> j.age ]
    IN  [ Player |-> j.Player, Team |-> j.Team, Pos |-> j.Pos, age |-> j.age,
          ts_pct |-> j.ts_pct, pts |-> j.pts, trb |-> j.trb, ast |-> j.ast,
          contract |-> j.contract, contract_status |-> j.contract_status,
          pts_percentile |-> pr.pts_percentile, trb_percentile |-> pr.trb_percentile,
          ast_percentile |-> pr.ast_percentile, ts_percentile |-> pr.ts_percentile,
          g_league_category |-> g_league_category(pr) ]

\* SELECT * FROM final_classification WHERE g_league_category != 'Not G-League Target'
FinalSelect(R, fp, ft, fa, fs) ==
    {x \in {PercentileRow(R, j, fp, ft, fa, fs) : j \in R} :
        x.g_league_category # "Not G-League Target"}

\* rows that player_per_game can hold
PlayerPerGameRows ==
    { [ player |-> <<"A">>, season |-> 2024, team |-> <<"L", "A", "L">>, pos |-> "PG",
        age |-> <<24>>, g |-> F(60), pts |-> F(10), trb |-> F(4), ast |-> F(5),
        fga |-> F(8), fta |-> F(2) ],
      [ player |-> <<"A">>, season |-> 2024, team |-> <<"N", "Y", "K">>, pos |-> "PG",
        age |-> <<24>>, g |-> F(60), pts |-> F(10), trb |-> F(7), ast |-> F(5),
        fga |-> F(9), fta |-> F(2) ],
      [ player |-> <<"A">>, season |-> 2024, team |-> <<"2", "T", "M">>, pos |-> "PG",
        age |-> <<24>>, g |-> F(60), pts |-> F(10), trb |-> F(5), ast |-> F(5),
        fga |-> F(8), fta |-> F(2) ],
      [ player |-> <<"B">>, season |-> 2024, team |-> <<"B", "O", "S">>, pos |-> "PG",
        age |-> <<27>>, g |-> F(50), pts |-> F(10), trb |-> F(6), ast |-> F(3),
        fga |-> F(8), fta |-> F(0) ],
      [ player |-> <<"B">>, season |-> 2023, team |-> <<"B", "O", "S">>, pos |-> "PG",
        age |-> <<26>>, g |-> F(70), pts |-> F(12), trb |-> F(5), ast |-> F(4),
        fga |-> F(9), fta |-> F(1) ],
      [ player |-> <<"C">>, season |-> 2024, team |-> <<"M", "I", "A">>, pos |-> "SG",
        age |-> <<>>, g |-> F(70), pts |-> F(0), trb |-> F(6), ast |-> F(2),
        fga |-> F(0), fta |-> F(0) ],
      [ player |-> <<"C">>, season |-> 2024, team |-> <<"P", "H", "X">>, pos |-> "SG",
        age |-> <<30>>, g |-> F(20), pts |-> F(20), trb |-> F(3), ast |-> F(6),
        fga |-> F(15), fta |-> F(5) ] }

\* rows that nba_contracts can hold
ContractRows ==
    { [ player |-> <<"a", " ">>, y202526 |-> <<>>, y202627 |-> <<>>, y202728 |-> <<>>,
        uncontracted |-> <<TRUE>> ],
      [ player |-> <<"A">>, y202526 |-> <<5>>, y202627 |-> <<>>, y202728 |-> <<>>,
        uncontracted |-> <<FALSE>> ],
      [ player |-> <<"B">>, y202526 |-> <<5>>, y202627 |-> <<6>>, y202728 |-> <<>>,
        uncontracted |-> <<>> ],
      [ player |-> <<" ", "C">>, y202526 |-> <<5>>, y202627 |-> <<6>>, y202728 |-> <<7>>,
        uncontracted |-> <<FALSE>> ] }

InitSearch ==
    /\ source = <<>>
    /\ page = "Player_Search"
    /\ pc = "query"
    /\ NoRun
    /\ norm_in = <<>> /\ norm_out = <<>>
    /\ cls_in = <<>> /\ cls_out = ""
    /\ player_per_game \in {T \in SUBSET PlayerPerGameRows : Cardinality(T) <= MaxSearchRows}
    /\ nba_contracts \in SUBSET ContractRows
    /\ search_results = <<>>
    /\ ProcIdle /\ ExtraIdle

\* one evaluation of the query by BigQuery over the two tables
Evaluate ==
    /\ pc = "query"
    /\ Len(search_results) < 2
    /\ \E S \in stats(player_per_game) :
          LET R == {j \in joined(S, nba_contracts) : j.ts_pct # <<>>}
              pos == [r \in R |-> r.Pos]
          IN  \E fp \in WindowOrders(R, pos, [r \in R |-> r.pts]),
                 ft \in WindowOrders(R, pos, [r \in R |-> r.trb]),
                 fa \in WindowOrders(R, pos, [r \in R |-> r.ast]),
                 fs \in WindowOrders(R, [r \in R |-> 0], [r \in R |-> r.ts_pct[1]]) :
                  search_results' = Append(search_results, FinalSelect(R, fp, ft, fa, fs))
    /\ UNCHANGED <<source, page, pc, df, season_filter, selected_player,
                   selected_season, player_current, league_stats, radar, metrics,
                   season_stats, shown, err, msg, norm_in, norm_out, cls_in, cls_out,
                   player_per_game, nba_contracts, procVars, extraVars>>

NextSearch == Evaluate

SpecSearch == InitSearch /\ [][NextSearch]_vars

-----------------------------------------------------------------------------
(* The Streamlit server process: the credentials environment, the            *)
(* st.cache_resource and st.cache_data caches that live as long as the       *)
(* process, and the script runs of the three pages of src/pages.  A client   *)
(* is "None" or the name of the method that built it; a loader result is     *)
(* "rows" (a non-empty table), "empty" or "raised".                          *)

\* ttl=3600 of @st.cache_data, in seconds
CacheTTL == 3600

\* the clock advances in steps of half a ttl; ages above MaxAgeSteps steps are
\* not told apart
MaxAgeSteps == 3
AgeSeconds(a) == a * (CacheTTL \div 2)

PageNames == {"Team_Overview", "Player_Search", "Player_Profiles"}

Loaders == {"get_seasons_competitions", "get_team_stats",
            "search_load_player_data", "profiles_load_player_data"}

\* the ttl of the loader's @st.cache_data decorator, <<>> when it has none
LoaderTTL(l) ==
    IF l \in {"search_load_player_data", "profiles_load_player_data"}
    THEN <<CacheTTL>> ELSE <<>>

\* variant: GOOGLE_SERVICE_ACCOUNT_KEY is looked at before the key file
credential_source_json_first(e) ==
    IF e.key_json \notin {"unset", "empty"} THEN "key_json"
    ELSE IF e.app_creds \in {"good_file", "bad_file"} THEN "key_file"
    ELSE "default"

\* the branch of get_bigquery_client that is entered:
\*   if key_path and os.path.exists(key_path)  (set, non-empty, an existing file)
\*   if key_json                               (set and non-empty)
\*   otherwise bigquery.Client(location="US")
credential_source(e) ==
    IF e.app_creds \in {"good_file", "bad_file"} THEN "key_file"
    ELSE IF e.key_json \notin {"unset", "empty"} THEN "key_json"
    ELSE "default"

\* the statements of a branch complete without an exception: the key file holds
\* a valid service-account key, the variable holds the JSON of one,
\* application-default credentials can be found
method_succeeds(m, e) ==
    CASE m = "key_file" -> e.app_creds = "good_file"
      [] m = "key_json" -> e.key_json = "good"
      [] m = "default"  -> e.adc

\* utils/bigquery_auth.py: the three methods inside one try block; an exception
\* of the branch entered ends in the except branch, which returns None
get_bigquery_client(e) ==
    IF method_succeeds(credential_source(e), e) THEN credential_source(e) ELSE "None"

\* test_bigquery_connection(client): "SELECT 1" succeeds
test_bigquery_connection(client, e) == client # "None" /\ e.warehouse = "up"

\* credential environments and warehouse states of the process model
ProcEnvs ==
    { [app_creds |-> "unset", key_json |-> "unset", adc |-> FALSE, warehouse |-> w]
        : w \in {"up", "down"} }
    \cup
    { [app_creds |-> "good_file", key_json |-> "unset", adc |-> FALSE, warehouse |-> w]
        : w \in {"up", "down"} }

\* working credentials and a reachable warehouse
ValidEnv ==
    [app_creds |-> "good_file", key_json |-> "unset", adc |-> FALSE, warehouse |-> "up"]

\* @st.cache_resource def get_client() of page module p:
\* <<the client returned, the cache after the call>>
get_client(p, cc, e) ==
    IF cc[p] = "unset"
    THEN <<get_bigquery_client(e), [cc EXCEPT ![p] = get_bigquery_client(e)]>>
    ELSE <<cc[p], cc>>

\* the body of a loader once it holds its client: the empty result for no
\* client; the query result; for a failing query the empty result of the except
\* branch, which load_player_data of Player Search does not have
LoaderBody(l, client, e) ==
    IF client = "None" THEN "empty"
    ELSE IF e.warehouse = "up" THEN "rows"
    ELSE IF l = "search_load_player_data" THEN "raised"
    ELSE "empty"

\* the cache entry of the loader exists and, if the decorator has a ttl, is
\* younger than it
Fresh(l, dc) ==
    /\ dc[l] # <<>>
    /\ LoaderTTL(l) = <<>> \/ AgeSeconds(dc[l][1].age) < LoaderTTL(l)[1]

\* a call of the @st.cache_data loader l from page p: the cached value on a hit,
\* else the body; the value returned is stored, an exception is not
CallLoader(l, p, cc, dc, e) ==
    IF Fresh(l, dc)
    THEN [ call |-> [loader |-> l, result |-> dc[l][1].value, hit |-> TRUE,
                     age |-> dc[l][1].age],
           cc |-> cc, dc |-> dc ]
    ELSE LET gc  == get_client(p, cc, e)
             res == LoaderBody(l, gc[1], e)
         IN  [ call |-> [loader |-> l, result |-> res, hit |-> FALSE, age |-> 0],
               cc |-> gc[2],
               dc |-> IF res = "raised" THEN [dc EXCEPT ![l] = <<>>]
                      ELSE [dc EXCEPT ![l] = <<[value |-> res, age |-> 0]>>] ]

RunRecord(p, outcome, error, message, calls) ==
    [ page |-> p, outcome |-> outcome, err |-> error, msg |-> message,
      loaded |-> outcome = "rendered",
      empty_population |-> \E i \in 1..Len(calls) : calls[i].result = "empty",
      repaired |-> repaired ]

InitProc ==
    /\ source = <<>>
    /\ page = ""
    /\ pc = "server"
    /\ NoRun
    /\ norm_in = <<>> /\ norm_out = <<>>
    /\ cls_in = <<>> /\ cls_out = ""
    /\ SearchIdle /\ ExtraIdle
    /\ env \in ProcEnvs
    /\ client_cache = [p \in PageNames |-> "unset"]
    /\ data_cache = [l \in Loaders |-> <<>>]
    /\ run = <<>>
    /\ loader_calls = <<>>
    /\ repaired = FALSE

pageVars == <<source, page, pc, df, season_filter, selected_player, selected_season,
              player_current, league_stats, radar, metrics, season_stats, shown, err,
              msg, norm_in, norm_out, cls_in, cls_out>>

\* 1_Team_Overview.py, one run of the script
RunTeamOverview ==
    /\ pc = "server"
    /\ LET p   == "Team_Overview"
           gc  == get_client(p, client_cache, env)
           sc  == CallLoader("get_seasons_competitions", p, gc[2], data_cache, env)
           ts  == CallLoader("get_team_stats", p, sc.cc, sc.dc, env)
       IN  IF sc.call.result = "rows"
           THEN /\ client_cache' = ts.cc
                /\ data_cache' = ts.dc
                /\ loader_calls' = <<sc.call, ts.call>>
                /\ run' = << IF ts.call.result = "rows"
                             THEN RunRecord(p, "rendered", "", "", loader_calls')
                             ELSE RunRecord(p, "message", "",
                                    "No data found for this season and competition type.",
                                    loader_calls') >>
           ELSE /\ client_cache' = sc.cc
                /\ data_cache' = sc.dc
                /\ loader_calls' = <<sc.call>>
                /\ run' = << RunRecord(p, "message", "",
                                "Failed to load seasons and competition types.",
                                loader_calls') >>
    /\ UNCHANGED <<pageVars, searchVars, extraVars, env, repaired>>

\* 2_Player_Search.py, one run of main() up to the sidebar filters
RunPlayerSearch ==
    /\ pc = "server"
    /\ LET p  == "Player_Search"
           ld == CallLoader("search_load_player_data", p, client_cache, data_cache, env)
       IN  /\ client_cache' = ld.cc
           /\ data_cache' = ld.dc
           /\ loader_calls' = <<ld.call>>
           /\ run' = << CASE ld.call.result = "raised" ->
                               RunRecord(p, "message", "", "Loading error", loader_calls')
                          [] ld.call.result = "empty" ->
                               RunRecord(p, "exception", "KeyError", "", loader_calls')
                          [] ld.call.result = "rows" ->
                               RunRecord(p, "rendered", "", "", loader_calls') >>
    /\ UNCHANGED <<pageVars, searchVars, extraVars, env, repaired>>

\* 3_Player_Profiles.py, one run of the script: the module body, then main()
\* with its two load_player_data() calls
RunPlayerProfiles ==
    /\ pc = "server"
    /\ LET p   == "Player_Profiles"
           gc  == get_client(p, client_cache, env)
           l1  == CallLoader("profiles_load_player_data", p, gc[2], data_cache, env)
           l2  == CallLoader("profiles_load_player_data", p, l1.cc, l1.dc, env)
       IN  IF l1.call.result = "empty"
           THEN /\ client_cache' = l1.cc
                /\ data_cache' = l1.dc
                /\ loader_calls' = <<l1.call>>
                /\ run' = <<RunRecord(p, "message", "", "Failed to load data.",
                                      loader_calls')>>
           ELSE /\ client_cache' = l2.cc
                /\ data_cache' = l2.dc
                /\ loader_calls' = <<l1.call, l2.call>>
                /\ run' = << IF l2.call.result = "empty"
                             THEN RunRecord(p, "message", "", "Failed to load data.",
                                            loader_calls')
                             ELSE RunRecord(p, "rendered", "", "", loader_calls') >>
    /\ UNCHANGED <<pageVars, searchVars, extraVars, env, repaired>>

\* time passes: every cache entry grows older by one step
Tick ==
    /\ pc = "server"
    /\ \E l \in Loaders : data_cache[l] # <<>> /\ data_cache[l][1].age < MaxAgeSteps
    /\ data_cache' =
          [l \in Loaders |->
              IF data_cache[l] = <<>> THEN <<>>
              ELSE << [data_cache[l][1] EXCEPT
                          !.age = IF @ < MaxAgeSteps THEN @ + 1 ELSE @] >>]
    /\ UNCHANGED <<pageVars, searchVars, extraVars, env, client_cache, run, loader_calls, repaired>>

\* the credentials or the warehouse change
EnvChange ==
    /\ pc = "server"
    /\ ~repaired
    /\ \E e \in ProcEnvs \ {env} : env' = e
    /\ UNCHANGED <<pageVars, searchVars, extraVars, client_cache, data_cache, run, loader_calls,
                   repaired>>

\* the credentials and the warehouse become valid and stay so
Repair ==
    /\ pc = "server"
    /\ ~repaired
    /\ env' = ValidEnv
    /\ repaired' = TRUE
    /\ UNCHANGED <<pageVars, searchVars, extraVars, client_cache, data_cache, run, loader_calls>>

NextProc ==
    \/ RunTeamOverview
    \/ RunPlayerSearch
    \/ RunPlayerProfiles
    \/ Tick
    \/ EnvChange
    \/ Repair

SpecProc == InitProc /\ [][NextProc]_vars

\* the pages keep being visited and time keeps passing
SpecProcFair ==
    /\ SpecProc
    /\ WF_vars(RunTeamOverview)
    /\ WF_vars(RunPlayerSearch)
    /\ WF_vars(RunPlayerProfiles)
    /\ WF_vars(Tick)

-----------------------------------------------------------------------------
(* One call of get_bigquery_client in every credentials environment *)

\* GOOGLE_APPLICATION_CREDENTIALS: unset, "", the path of no file, of a valid key
\* file, of a file that is not a valid key; GOOGLE_SERVICE_ACCOUNT_KEY: unset,
\* "", the JSON of a valid key, a string that is not; application-default
\* credentials present or not
AuthEnvs ==
    [ app_creds : {"unset", "empty", "missing_file", "good_file", "bad_file"},
      key_json : {"unset", "empty", "good", "malformed"},
      adc : BOOLEAN,
      warehouse : {"up", "down"} ]

InitAuth ==
    /\ source = <<>>
    /\ page = ""
    /\ pc = "auth"
    /\ NoRun
    /\ norm_in = <<>> /\ norm_out = <<>>
    /\ cls_in = <<>> /\ cls_out = ""
    /\ SearchIdle
    /\ env \in AuthEnvs
    /\ client_cache = <<>> /\ data_cache = <<>>
    /\ run = <<>> /\ loader_calls = <<>> /\ repaired = FALSE
    /\ timeline = <<>> /\ AuthIdle /\ HeaderIdle /\ ExportIdle /\ SearchPageIdle

\* client = get_bigquery_client(): the branches entered, in order, the value
\* returned, and whether an exception left the function (every statement is
\* inside the try block, whose handler catches Exception and returns None)
CallGetBigqueryClient ==
    /\ pc = "auth"
    /\ auth' = << [ tried  |-> <<credential_source(env)>>,
                    client |-> get_bigquery_client(env),
                    raised |-> FALSE ] >>
    /\ pc' = "auth_done"
    /\ UNCHANGED <<source, page, df, season_filter, selected_player, selected_season,
                   player_current, league_stats, radar, metrics, season_stats, shown,
                   err, msg, norm_in, norm_out, cls_in, cls_out,
                   searchVars, procVars, timeline, headerVars, exportVars,
                   searchPageVars>>

NextAuth == CallGetBigqueryClient

SpecAuth == InitAuth /\ [][NextAuth]_vars

-----------------------------------------------------------------------------
(* scripts/clean_gcs_csv_headers.py: column names are sequences of characters *)

\* longest column name in the header line of the blob
MaxHeaderLen == 3

\* most runs of the script
MaxCleanings == 2

\* characters a column name of the blob is made of
HeaderChars == {" ", "1", ".", "-", "P", "_"}

\* the column names of at most MaxHeaderLen characters
Headers == UNION { [1..n -> HeaderChars] : n \in 0..MaxHeaderLen }

\* \s and \d over these characters
IsSpace(c) == c = " "
IsDigit(c) == c \in {"0", "1", "2", "3", "4", "5", "6", "7", "8", "9"}

\* [a-zA-Z0-9_] over the characters that occur
IsWordChar(c) ==
    \/ IsDigit(c)
    \/ c = "_"
    \/ c \in {"P", "U", "a", "c", "d", "e", "l", "m", "n", "o", "p", "u"}

AllDigits(s) == s # <<>> /\ \A i \in 1..Len(s) : IsDigit(s[i])

\* col.strip()
RECURSIVE strip(_)
strip(s) ==
    IF s # <<>> /\ IsSpace(Head(s)) THEN strip(Tail(s))
    ELSE IF s # <<>> /\ IsSpace(s[Len(s)]) THEN strip(SubSeq(s, 1, Len(s) - 1))
    ELSE s

\* re.match(r"^\d+(\.\d+)?$", col)
IsNumericName(s) ==
    \/ AllDigits(s)
    \/ \E i \in 1..Len(s) :
          /\ s[i] = "."
          /\ AllDigits(SubSeq(s, 1, i - 1))
          /\ AllDigits(SubSeq(s, i + 1, Len(s)))

\* col.replace('.', '_')
ReplaceDots(s) == [i \in 1..Len(s) |-> IF s[i] = "." THEN "_" ELSE s[i]]

\* re.sub(r"\s+", "_", col): every run of whitespace becomes one underscore
RECURSIVE SubWhitespace(_)
SubWhitespace(s) ==
    IF s = <<>> THEN <<>>
    ELSE IF IsSpace(Head(s))
         THEN IF Len(s) > 1 /\ IsSpace(s[2])
              THEN SubWhitespace(Tail(s))
              ELSE <<"_">> \o SubWhitespace(Tail(s))
         ELSE <<Head(s)>> \o SubWhitespace(Tail(s))

\* re.sub(r"[^a-zA-Z0-9_]", "", col)
RemoveNonWord(s) == SelectSeq(s, IsWordChar)

\* col.lower()
str_lower(s) ==
    [i \in 1..Len(s) |->
        CASE s[i] = "P" -> "p" [] s[i] = "U" -> "u" [] OTHER -> s[i]]

\* def clean_column_name(col)
clean_column_name(col) ==
    LET c1 == strip(col)
        c2 == IF IsNumericName(c1)
              THEN <<"c", "o", "l", "_">> \o ReplaceDots(c1)
              ELSE c1
    IN  str_lower(RemoveNonWord(SubWhitespace(c2)))

\* list(pd.read_csv(local_path).columns) for the column, the second of the
\* file: an empty name is read as "Unnamed: 1"
read_csv_column(h) ==
    IF h = <<>> THEN <<"U", "n", "n", "a", "m", "e", "d", ":", " ", "1">> ELSE h

InitHeader ==
    /\ source = <<>>
    /\ page = ""
    /\ pc = "clean_headers"
    /\ NoRun
    /\ norm_in = <<>> /\ norm_out = <<>>
    /\ cls_in = <<>> /\ cls_out = ""
    /\ SearchIdle /\ ProcIdle
    /\ timeline = <<>> /\ AuthIdle /\ ExportIdle /\ SearchPageIdle
    /\ header \in Headers
    /\ cleanings = <<>>

\* one run of the script over the blob: download to the local file, read the
\* column names, clean them, and rewrite the local file when they differ; the
\* blob in the bucket is left as it is
CleanHeaders ==
    /\ pc = "clean_headers"
    /\ Len(cleanings) < MaxCleanings
    /\ LET original_cols == read_csv_column(header)
           cleaned_cols == clean_column_name(original_cols)
       IN  cleanings' = Append(cleanings,
                               [ original  |-> original_cols,
                                 cleaned   |-> cleaned_cols,
                                 rewritten |-> original_cols # cleaned_cols,
                                 local     |-> IF original_cols # cleaned_cols
                                               THEN cleaned_cols ELSE header ])
    /\ UNCHANGED <<source, page, pc, df, season_filter, selected_player,
                   selected_season, player_current, league_stats, radar, metrics,
                   season_stats, shown, err, msg, norm_in, norm_out, cls_in, cls_out,
                   searchVars, procVars, timeline, authVars, header, exportVars,
                   searchPageVars>>

NextHeader == CleanHeaders

SpecHeader == InitHeader /\ [][NextHeader]_vars

-----------------------------------------------------------------------------
(* The CSV exports: "Export Results (CSV)" of Player Search and              *)
(* "Télécharger les données filtrées" of the data viewer test.py             *)

\* most decimals tried for the text of a float
MaxReprDigits == 5

\* the fraction x rounded half-to-even to d decimals
Decimal(x, d) ==
    LET n == Abs(x[1]) * 10^d
        q == n \div x[2]
        r == n % x[2]
        m == IF 2 * r > x[2] \/ (2 * r = x[2] /\ q % 2 = 1) THEN q + 1 ELSE q
    IN  Frac(IF x[1] < 0 THEN -m ELSE m, 10^d)

\* DataFrame.round(decimals) of a float column (numpy.around):
\* rint(x * 10^d) / 10^d in float arithmetic, nan for nan
np_round(x, d) ==
    IF IsNaN(x) THEN NaN
    ELSE FDiv(Decimal(FMul(x, F(10^d)), 0), F(10^d))

\* the text to_csv writes for a float (float_format=None, so repr): the decimal
\* with the fewest digits that reads back as the same float; the empty field,
\* here nan, for a null
RECURSIVE ReprFrom(_, _)
ReprFrom(x, d) ==
    IF d >= MaxReprDigits \/ Fl(Decimal(x, d)) = x THEN Decimal(x, d)
    ELSE ReprFrom(x, d + 1)

float_repr(x) == IF IsNaN(x) THEN NaN ELSE ReprFrom(x, 0)

\* display_df.round({'mp': 1, 'pts': 1, 'trb': 1, 'ast': 1, 'ts_pct': 3, ...})
\* and display_df.to_csv(index=False) of 2_Player_Search.py
player_search_csv(r) ==
    [ minutes  |-> float_repr(np_round(r.minutes, 1)),
      points   |-> float_repr(np_round(r.points, 1)),
      rebounds |-> float_repr(np_round(r.rebounds, 1)),
      assists  |-> float_repr(np_round(r.assists, 1)),
      ts_pct   |-> float_repr(np_round(r.ts_pct, 3)) ]

\* filtered_df.to_csv(index=False) of test.py
data_viewer_csv(r) ==
    [ minutes  |-> float_repr(r.minutes),
      points   |-> float_repr(r.points),
      rebounds |-> float_repr(r.rebounds),
      assists  |-> float_repr(r.assists),
      ts_pct   |-> float_repr(r.ts_pct) ]

\* float values of the volume columns and of the efficiency column
VolumeValues == {F(10), Frac(41, 4), Fl(Frac(103, 10))}
FewVolumeValues == {F(4), Fl(Frac(667, 100))}
RatioValues == {Frac(5, 8), Fl(Frac(568, 1000)), Fl(Frac(56789, 100000))}

\* a row of the exported frame: mp / minutes_played, pts / points,
\* trb / rebounds, ast / assists, and the true shooting ratio
ExportRows ==
    [ minutes : VolumeValues, points : VolumeValues,
      rebounds : FewVolumeValues, assists : FewVolumeValues, ts_pct : RatioValues ]

InitExport ==
    /\ source = <<>>
    /\ page \in {"Player_Search", "test"}
    /\ pc = "export"
    /\ NoRun
    /\ norm_in = <<>> /\ norm_out = <<>>
    /\ cls_in = <<>> /\ cls_out = ""
    /\ SearchIdle /\ ProcIdle
    /\ timeline = <<>> /\ AuthIdle /\ HeaderIdle /\ SearchPageIdle
    /\ export_in \in {<<r>> : r \in ExportRows}
    /\ export_out = <<>>

ExportFrame ==
    UNCHANGED <<source, page, df, season_filter, selected_player, selected_season,
                player_current, league_stats, radar, metrics, season_stats, shown,
                err, msg, norm_in, norm_out, cls_in, cls_out,
                searchVars, procVars, timeline, authVars, headerVars, export_in,
                searchPageVars>>

\* 2_Player_Search.py: the "Export Results (CSV)" button
ExportPlayerSearch ==
    /\ pc = "export"
    /\ page = "Player_Search"
    /\ export_out' = <<player_search_csv(export_in[1])>>
    /\ pc' = "exported"
    /\ ExportFrame

\* test.py: the "Télécharger les données filtrées" button
ExportDataViewer ==
    /\ pc = "export"
    /\ page = "test"
    /\ export_out' = <<data_viewer_csv(export_in[1])>>
    /\ pc' = "exported"
    /\ ExportFrame

NextExport == ExportPlayerSearch \/ ExportDataViewer

SpecExport == InitExport /\ [][NextExport]_vars

-----------------------------------------------------------------------------
(* One script run of the Player Search page, 2_Player_Search.py *)

\* the names bound in the module when main() runs: the imports of lines 1-9
\* and the functions defined in the file
ModuleNames ==
    {"st", "pd", "sys", "os", "bigquery", "get_bigquery_client",
     "test_bigquery_connection", "get_client", "your_query_function",
     "load_player_data", "main"}

\* rows the query can return (every returned row has a category other than
\* 'Not G-League Target', hence a known age of at most 28)
SearchPageRows ==
    { [ Player |-> "A", Age |-> 24, pts |-> F(10),
        g_league_category |-> "NBA Struggling / G-League Potential" ],
      [ Player |-> "B", Age |-> 27, pts |-> F(12),
        g_league_category |-> "Well-Rounded Average" ],
      [ Player |-> "C", Age |-> 22, pts |-> F(5),
        g_league_category |-> "NBA Struggling / G-League Potential" ] }

\* ORDER BY Player
RECURSIVE OrderByPlayer(_)
OrderByPlayer(R) ==
    IF R = {} THEN <<>>
    ELSE LET first == CHOOSE r \in R : \A q \in R \ {r} :
                          \E i \in 1..3 : PlayerNames[i] = r.Player
                                         /\ \A j \in 1..i : PlayerNames[j] # q.Player
         IN  <<first>> \o OrderByPlayer(R \ {first})

\* what load_player_data() returns: the query result with its columns, or the
\* pd.DataFrame() without columns when there is no client
SearchFrames ==
    { [ has_columns |-> TRUE, rows |-> OrderByPlayer(R) ] : R \in SUBSET SearchPageRows }
    \cup { [ has_columns |-> FALSE, rows |-> <<>> ] }

Categories(rows) == {rows[i].g_league_category : i \in 1..Len(rows)}
Ages(rows) == {rows[i].Age : i \in 1..Len(rows)}
MinAge(rows) == CHOOSE a \in Ages(rows) : \A b \in Ages(rows) : a <= b
MaxAge(rows) == CHOOSE a \in Ages(rows) : \A b \in Ages(rows) : b <= a

\* the choices the category multiselect and the age slider allow
FilterChoices(rows) ==
    [ categories : SUBSET Categories(rows),
      age_lo : MinAge(rows)..MaxAge(rows),
      age_hi : MinAge(rows)..MaxAge(rows) ]

\* df[df['g_league_category'].isin(selected_categories) & (df['Age'] >= lo) & (df['Age'] <= hi)]
ApplyFilters(rows, f) ==
    SelectSeq(rows, LAMBDA r : /\ r.g_league_category \in f.categories
                               /\ r.Age >= f.age_lo
                               /\ r.Age <= f.age_hi)

InitSearchPage ==
    /\ source = <<>>
    /\ page = "Player_Search"
    /\ pc = "search_start"
    /\ NoRun
    /\ norm_in = <<>> /\ norm_out = <<>>
    /\ cls_in = <<>> /\ cls_out = ""
    /\ SearchIdle /\ ProcIdle
    /\ timeline = <<>> /\ AuthIdle /\ HeaderIdle /\ ExportIdle /\ SearchPageIdle

SearchPageFrame ==
    UNCHANGED <<source, page, season_filter, selected_player, selected_season,
                player_current, league_stats, radar, metrics, season_stats, shown,
                norm_in, norm_out, cls_in, cls_out,
                searchVars, procVars, timeline, authVars, headerVars, exportVars>>

\* lines 113-120: df = load_player_data() inside try; an exception of the
\* loader is reported and st.stop() ends the run
SearchLoad ==
    /\ pc = "search_start"
    /\ \/ \E fr \in SearchFrames :
             /\ df' = <<fr>>
             /\ msg' = msg
             /\ pc' = "search_loaded"
       \/ /\ df' = df
          /\ msg' = "Loading error"
          /\ pc' = "done"
    /\ UNCHANGED <<err, filters, filtered_df, rendered>>
    /\ SearchPageFrame

\* lines 122-286: the sidebar widgets, filtered_df, the four metrics and the
\* "No players match" return.  df['g_league_category'] raises KeyError on the
\* frame without columns, int(df['Age'].min()) raises ValueError on no rows
SearchFilters ==
    /\ pc = "search_loaded"
    /\ IF ~df[1].has_columns
       THEN /\ err' = "KeyError" /\ pc' = "error"
            /\ UNCHANGED <<msg, filters, filtered_df>>
       ELSE IF df[1].rows = <<>>
       THEN /\ err' = "ValueError" /\ pc' = "error"
            /\ UNCHANGED <<msg, filters, filtered_df>>
       ELSE \E f \in FilterChoices(df[1].rows) :
                /\ f.age_lo <= f.age_hi
                /\ filters' = <<f>>
                /\ filtered_df' = ApplyFilters(df[1].rows, f)
                /\ err' = err
                /\ IF filtered_df' = <<>>
                   THEN msg' = "No players match your criteria." /\ pc' = "done"
                   ELSE msg' = msg /\ pc' = "search_tabs"
    /\ UNCHANGED <<df, rendered>>
    /\ SearchPageFrame

\* lines 288-441: tab1 draws px.pie and px.bar, tab2 renders the sorted table
\* and the export button; looking up a name that the module does not bind
\* raises NameError
SearchTabs ==
    /\ pc = "search_tabs"
    /\ IF "px" \in ModuleNames
       THEN /\ rendered' = <<"pie", "bar", "table", "export_button">>
            /\ err' = err
            /\ pc' = "done"
       ELSE /\ rendered' = rendered
            /\ err' = "NameError"
            /\ pc' = "error"
    /\ UNCHANGED <<df, msg, filters, filtered_df>>
    /\ SearchPageFrame

NextSearchPage == SearchLoad \/ SearchFilters \/ SearchTabs

SpecSearchPage == InitSearchPage /\ [][NextSearchPage]_vars

-----------------------------------------------------------------------------
(* Properties *)

StatNames == {"points_per_game", "rebounds_per_game", "assists_per_game"}

\* the local of calculate_advanced_metrics that holds the percentile of a statistic
PercentileOf(m, stat) ==
    CASE stat = "points_per_game"   -> m.points_percentile
      [] stat = "rebounds_per_game" -> m.rebounds_percentile
      [] stat = "assists_per_game"  -> m.assists_percentile

\* number of rows of `rows` whose value of `stat` is strictly below v
CountBelow(rows, stat, v) == Cardinality({i \in 1..Len(rows) : Lt(rows[i][stat], v)})

\* the values of a statistic over the rows, as a set
ValueSet(rows, stat) == {rows[i][stat] : i \in 1..Len(rows)}

MetricsDone == Len(metrics) = 1

\* |x| of a fraction
AbsF(x) == <<Abs(x[1]), x[2]>>

\* the float x is the real number q up to the rounding of k float operations:
\* |x - q| <= k * 2^-MantissaBits * |q|
Close(x, q, k) ==
    IF IsNaN(x) \/ IsNaN(q) THEN FALSE
    ELSE IF ~Le(AbsF(Sub(x, q)), F(1)) THEN FALSE
    ELSE Le(Mul(AbsF(Sub(x, q)), F(2^MantissaBits)), Mul(AbsF(q), F(k)))

\* C1: for a non-empty season population and a subject whose statistic is
\* non-null, each of the points, rebounds and assists percentiles is
\* 100 * (rows strictly below the subject's value) / (rows of the population),
\* up to the rounding of the float division and multiplication, and exactly
\* that when no row is below; over the values {10, 20, 30} the three subjects
\* get 0, 33.3 and 66.7 (one decimal).
C1_PercentileFormula ==
    (MetricsDone /\ Len(league_stats) > 0) =>
        \A stat \in StatNames :
            LET v == player_current[1][stat]
                p == PercentileOf(metrics[1], stat)
                c == CountBelow(league_stats, stat, v)
            IN  ~IsNaN(v) =>
                  /\ Close(p, Frac(100 * c, Len(league_stats)), 3)
                  /\ c = 0 => p = F(0)
                  /\ (Len(league_stats) = 3
                      /\ ValueSet(league_stats, stat) = {F(10), F(20), F(30)}) =>
                        /\ v = F(10) => FormatFixed(p, 1) = F(0)
                        /\ v = F(20) => FormatFixed(p, 1) = Frac(333, 10)
                        /\ v = F(30) => FormatFixed(p, 1) = Frac(667, 10)

\* C1 witness: the population {10, 20, 30} of points per game with the subject at
\* 20, one third of the rows below it
C1_Witness ==
    /\ MetricsDone
    /\ Len(league_stats) = 3
    /\ ValueSet(league_stats, "points_per_game") = {F(10), F(20), F(30)}
    /\ player_current[1].points_per_game = F(20)
    /\ Close(metrics[1].points_percentile, Frac(100, 3), 3)
    /\ FormatFixed(metrics[1].points_percentile, 1) = Frac(333, 10)

\* C2: normalize_to_scale(value, min, mean, max) with min <= mean <= max is
\* 50 * (value - min) / (mean - min) for value <= mean (50 if mean = min) and
\* 50 + 50 * (value - mean) / (max - mean) for value > mean (50 if max = mean):
\* the result is that expression evaluated in floats, operator by operator from
\* the left, and so the real number it denotes up to the rounding of its
\* operations; with min, mean, max = 10, 20, 30 it maps 10 to 0, 20 to 50 and
\* 30 to 100.
C2_NormalizeContract ==
    pc = "normed" =>
        LET v   == norm_in[1]
            mn  == norm_in[2]
            av  == norm_in[3]
            mx  == norm_in[4]
            out == norm_out[1]
        IN  /\ ~IsNaN(out)
            /\ (Le(v, av) /\ Eq(av, mn)) => out = F(50)
            /\ (Le(v, av) /\ ~Eq(av, mn)) =>
                  /\ out = Fl(Div(Fl(Mul(F(50), Fl(Sub(v, mn)))), Fl(Sub(av, mn))))
                  /\ Close(out, Div(Mul(F(50), Sub(v, mn)), Sub(av, mn)), 5)
            /\ (Lt(av, v) /\ Eq(mx, av)) => out = F(50)
            /\ (Lt(av, v) /\ ~Eq(mx, av)) =>
                  /\ out = Fl(Add(F(50), Fl(Div(Fl(Mul(F(50), Fl(Sub(v, av)))),
                                                Fl(Sub(mx, av))))))
                  /\ Close(out, Add(F(50), Div(Mul(F(50), Sub(v, av)), Sub(mx, av))), 6)
            /\ norm_in = <<F(10), F(10), F(20), F(30)>> => out = F(0)
            /\ norm_in = <<F(20), F(10), F(20), F(30)>> => out = F(50)
            /\ norm_in = <<F(30), F(10), F(20), F(30)>> => out = F(100)

\* C2 witness: a value above a mean that is not the midpoint, scaled on the
\* upper half to 50 + 50 * 10 / 15
C2_Witness ==
    /\ pc = "normed"
    /\ norm_in = <<F(25), F(10), F(15), F(30)>>
    /\ Close(norm_out[1], Frac(250, 3), 6)

\* the League Rankings section displayed its three ranks
RanksShown == Len(shown) = 1

\* the rank column of season_stats for a statistic
RankColumnOf(r, stat) ==
    CASE stat = "points_per_game"   -> r.rank_points
      [] stat = "rebounds_per_game" -> r.rank_rebounds
      [] stat = "assists_per_game"  -> r.rank_assists

\* the displayed "#K" of a statistic
ShownRankOf(sh, stat) ==
    CASE stat = "points_per_game"   -> sh.rank_points
      [] stat = "rebounds_per_game" -> sh.rank_rebounds
      [] stat = "assists_per_game"  -> sh.rank_assists

\* the rows of the selected season, and the selected player's first row among them
SeasonRows == WhereSeason(df, selected_season)
OwnRow == WherePlayer(SeasonRows, selected_player)[1]

CountAbove(rows, stat, v) == Cardinality({i \in 1..Len(rows) : Lt(v, rows[i][stat])})
CountEqual(rows, stat, v) == Cardinality({i \in 1..Len(rows) : Eq(v, rows[i][stat])})

\* the values of the statistic are non-null and pairwise distinct over the rows
PairwiseDistinct(rows, stat) ==
    /\ \A i \in 1..Len(rows) : ~IsNaN(rows[i][stat])
    /\ \A i, j \in 1..Len(rows) : i # j => ~Eq(rows[i][stat], rows[j][stat])

\* C3: when the values of a statistic are pairwise distinct and non-null over the
\* selected season, the rank shown for the selected player is 1 + the number of
\* rows with a strictly greater value, and "out of N" is the number of rows of
\* the season; the values {30, 20, 10} give ranks 1, 2, 3 out of 3.
C3_RankDistinctValues ==
    RanksShown =>
        /\ shown[1].out_of = Len(SeasonRows)
        /\ \A stat \in StatNames :
              PairwiseDistinct(SeasonRows, stat) =>
                /\ ShownRankOf(shown[1], stat) =
                      1 + CountAbove(SeasonRows, stat, OwnRow[stat])
                /\ (Len(SeasonRows) = 3
                    /\ ValueSet(SeasonRows, stat) = {F(10), F(20), F(30)}) =>
                      /\ shown[1].out_of = 3
                      /\ OwnRow[stat] = F(30) => ShownRankOf(shown[1], stat) = 1
                      /\ OwnRow[stat] = F(20) => ShownRankOf(shown[1], stat) = 2
                      /\ OwnRow[stat] = F(10) => ShownRankOf(shown[1], stat) = 3

\* C3 witness: points per game {30, 20, 10}, the selected player holds 10 and is
\* shown #3 out of 3
C3_Witness ==
    /\ RanksShown
    /\ Len(SeasonRows) = 3
    /\ ValueSet(SeasonRows, "points_per_game") = {F(10), F(20), F(30)}
    /\ OwnRow.points_per_game = F(10)
    /\ shown[1].rank_points = 3
    /\ shown[1].out_of = 3

\* C8: the subject with the maximum value of a statistic is shown rank 1, however
\* many subjects share that maximum.
C8_MaxIsRankOne ==
    RanksShown =>
        \A stat \in StatNames :
            CountAbove(SeasonRows, stat, OwnRow[stat]) = 0 =>
                ShownRankOf(shown[1], stat) = 1

\* the rows of season_stats whose value of stat is the best / the next distinct one
IsBest(stat, i) ==
    /\ ~IsNaN(season_stats[i].row[stat])
    /\ CountAbove(SeasonRows, stat, season_stats[i].row[stat]) = 0
IsNextAfterTwo(stat, i) ==
    /\ ~IsNaN(season_stats[i].row[stat])
    /\ CountAbove(SeasonRows, stat, season_stats[i].row[stat]) = 2
    /\ \E j \in 1..Len(season_stats) :
          IsBest(stat, j) /\ CountEqual(SeasonRows, stat, season_stats[j].row[stat]) = 2

\* "#{int(rank)}" of row i of season_stats
DisplayedRank(stat, i) == Trunc(RankColumnOf(season_stats[i], stat))

RadarDone == Len(radar) = 5

\* the subject's raw value and the population's values of radar dimension d
\* (1 Scoring, 2 Rebounding, 3 Playmaking, 4 Availability, 5 Production)
DimValue(row, d) ==
    CASE d = 1 -> row.points_per_game
      [] d = 2 -> row.rebounds_per_game
      [] d = 3 -> row.assists_per_game
      [] d = 4 -> row.games_played
      [] d = 5 -> Production(row)
DimSeries(rows, d) == [i \in 1..Len(rows) |-> DimValue(rows[i], d)]

\* the subject's row is a row of the population
SubjectIsMember == \E i \in 1..Len(league_stats) : league_stats[i] = player_current[1]

InUnitRange(x) == Le(F(0), x) /\ Le(x, F(100))

\* C5: for a non-empty season population and a subject that is one of its rows,
\* each of the five radar scores lies in [0, 100].  Stated for the dimensions in
\* which the subject's own value is not null.
C5_RadarScoresInRange ==
    (RadarDone /\ Len(league_stats) > 0 /\ SubjectIsMember) =>
        \A d \in 1..5 :
            ~IsNaN(DimValue(player_current[1], d)) => InUnitRange(radar[d])

\* the value is the mean that pandas computes for the series
IsMeanOf(a, s) == NonNull(s) # {} /\ Eq(a, SeriesMean(s))

\* C6: the score of a subject whose raw value equals the population mean is
\* exactly 50 in each of the five radar dimensions (Availability included, whose
\* maximum is capped at 82).
C6_MeanScoresFifty ==
    RadarDone =>
        \A d \in 1..5 :
            IsMeanOf(DimValue(player_current[1], d), DimSeries(league_stats, d)) =>
                radar[d] = F(50)

AllFifty == radar = <<F(50), F(50), F(50), F(50), F(50)>>

\* all the statistics of a row that the radar chart reads are present
NoNullDim(row) == \A d \in 1..5 : ~IsNaN(DimValue(row, d))

\* C7 as stated: for a population of exactly one row the radar chart yields
\* exactly 50 in all five dimensions, whatever the row's values are.
C7_Original ==
    (RadarDone /\ Len(league_stats) = 1) => AllFifty

\* C7 as amended: for a population of exactly one row none of whose radar
\* statistics is null, the radar chart yields exactly 50 in all five dimensions
\* (so no division by a zero spread took place), also when games_played
\* exceeds 82.
C7_SingleRowAllFifty ==
    (RadarDone /\ Len(league_stats) = 1 /\ NoNullDim(league_stats[1])) => AllFifty

\* C7 witness: a one-row population whose games_played is 90, above the cap
C7_Witness ==
    /\ RadarDone
    /\ Len(league_stats) = 1
    /\ league_stats[1].games_played = F(90)
    /\ SubjectIsMember
    /\ AllFifty

\* the statistic has no null in the population and the subject holds its maximum
HoldsMaximum(stat) ==
    /\ \A i \in 1..Len(league_stats) : ~IsNaN(league_stats[i][stat])
    /\ ~IsNaN(player_current[1][stat])
    /\ CountAbove(league_stats, stat, player_current[1][stat]) = 0
    /\ SubjectIsMember

\* C10 as stated: the subject holding the maximum of a statistic without nulls
\* receives percentile 100 * (n - 1) / n (up to float rounding), and 100 only
\* as the sole member.
C10_Original ==
    (MetricsDone /\ Len(league_stats) > 0) =>
        \A stat \in StatNames :
            HoldsMaximum(stat) =>
                LET p == PercentileOf(metrics[1], stat)
                    n == Len(league_stats)
                IN  /\ IF n = 1 THEN p = F(0) ELSE Close(p, Frac(100 * (n - 1), n), 3)
                    /\ p = F(100) => n = 1

\* C10 as amended: the subject holding the maximum of a statistic without nulls
\* receives 100 * (n - k) / n (up to float rounding; exactly 0 when k = n), k
\* being the number of rows that hold the maximum, hence 100 * (n - 1) / n when
\* it holds the maximum alone, and always less than 100.
C10_MaxPercentile ==
    (MetricsDone /\ Len(league_stats) > 0) =>
        \A stat \in StatNames :
            HoldsMaximum(stat) =>
                LET p == PercentileOf(metrics[1], stat)
                    n == Len(league_stats)
                    k == CountEqual(league_stats, stat, player_current[1][stat])
                IN  /\ IF k = n THEN p = F(0) ELSE Close(p, Frac(100 * (n - k), n), 3)
                    /\ k = 1 => Close(p, Frac(100 * (n - 1), n), 3) \/ n = 1
                    /\ Lt(p, F(100))

\* C10 witness: three rows without a null in points per game, the subject alone
\* at the maximum, percentile 100 * 2 / 3
C10_Witness ==
    /\ MetricsDone
    /\ Len(league_stats) = 3
    /\ HoldsMaximum("points_per_game")
    /\ CountEqual(league_stats, "points_per_game", player_current[1].points_per_game) = 1
    /\ Close(metrics[1].points_percentile, Frac(200, 3), 3)
    /\ FormatFixed(metrics[1].points_percentile, 1) = Frac(667, 10)


\* the percentile lies in the band [lo, hi]
InBand(p, lo, hi) == lo <= p /\ p <= hi

\* contract status in the available set and a known age of at most 28
Eligible(r) ==
    /\ r.contract_status \in {"Free Agent / No Contract Data", "Expiring Contract",
                              "Uncontracted", "Free Agent"}
    /\ r.age # <<>>
    /\ r.age[1] <= 28

Rule1(r) ==
    /\ \/ InBand(r.pts_percentile, 0, 25)
       \/ InBand(r.trb_percentile, 0, 25)
       \/ InBand(r.ast_percentile, 0, 25)
    /\ Eligible(r)

Rule2(r) ==
    /\ InBand(r.pts_percentile, 25, 75)
    /\ InBand(r.trb_percentile, 25, 75)
    /\ InBand(r.ast_percentile, 25, 75)
    /\ InBand(r.ts_percentile, 25, 75)
    /\ Eligible(r)

\* C4: the category is the label of the first matching rule: 'NBA Struggling /
\* G-League Potential' iff rule 1 matches, otherwise 'Well-Rounded Average' iff
\* rule 2 matches, otherwise 'Not G-League Target'; a subject matching both
\* rules gets rule 1's label.
C4_FirstMatchingRule ==
    pc = "classified" =>
        LET r == cls_in[1]
        IN  /\ cls_out = "NBA Struggling / G-League Potential" <=> Rule1(r)
            /\ cls_out = "Well-Rounded Average" <=> (~Rule1(r) /\ Rule2(r))
            /\ cls_out = "Not G-League Target" <=> (~Rule1(r) /\ ~Rule2(r))

\* C4 witness: a subject at percentile 25 matches both rules and is labelled by
\* the first
C4_Witness ==
    /\ pc = "classified"
    /\ Rule1(cls_in[1])
    /\ Rule2(cls_in[1])
    /\ cls_out = "NBA Struggling / G-League Potential"


\* the formatted percentile that calculate_advanced_metrics returns for a statistic
ReportedPercentileOf(m, stat) ==
    CASE stat = "points_per_game"   -> m.Points_Percentile
      [] stat = "rebounds_per_game" -> m.Rebounds_Percentile
      [] stat = "assists_per_game"  -> m.Assists_Percentile

\* C12: a subject whose value of a statistic is null gets an undefined (nan)
\* percentile from calculate_advanced_metrics, and neither 0 nor 100 is reported
\* for it.
C12_NullPercentileSignalled ==
    MetricsDone =>
        \A stat \in StatNames :
            IsNaN(player_current[1][stat]) =>
                /\ IsNaN(PercentileOf(metrics[1], stat))
                /\ ReportedPercentileOf(metrics[1], stat) \notin {F(0), F(100)}

\* the rows whose value of the statistic is not null
DropNull(rows, stat) == SelectSeq(rows, LAMBDA r : ~IsNaN(r[stat]))

\* C13: the rows whose statistic is null take no part in the percentile: the
\* percentile of a subject with a non-null value is the one computed over the
\* population without those rows (they count neither among the rows strictly
\* below nor in the group size).
C13_NullRowsExcluded ==
    (MetricsDone /\ Len(league_stats) > 0) =>
        \A stat \in StatNames :
            ~IsNaN(player_current[1][stat]) =>
                PercentileOf(metrics[1], stat) =
                    Percentile(player_current[1], DropNull(league_stats, stat), stat)

\* the League Rankings section has been reached for the selected player
RankingsReached == season_stats # <<>>

\* C14: in the League Rankings a row whose statistic is null has no rank or the
\* last one, and the section renders for a selected player with a null
\* statistic without raising.
C14_NullRankRenders ==
    RankingsReached =>
        /\ \A stat \in StatNames : \A i \in 1..Len(season_stats) :
              IsNaN(season_stats[i].row[stat]) =>
                  \/ IsNaN(RankColumnOf(season_stats[i], stat))
                  \/ RankColumnOf(season_stats[i], stat) = F(Len(season_stats))
        /\ (\E stat \in StatNames : IsNaN(OwnRow[stat])) => (err = "" /\ RanksShown)

\* C15: with an empty season population create_radar_chart yields nan in all
\* five dimensions and calculate_advanced_metrics yields nan for the three
\* percentiles, Availability is taken against 82 games, and no division has a
\* zero divisor (no division-by-zero error is raised).
C15_EmptyPopulationUndefined ==
    (pc = "engine_done" /\ Len(league_stats) = 0) =>
        /\ \A d \in 1..5 : IsNaN(radar[d])
        /\ \A stat \in StatNames :
              /\ IsNaN(PercentileOf(metrics[1], stat))
              /\ IsNaN(ReportedPercentileOf(metrics[1], stat))
        /\ Ne(max_games(league_stats), F(0))
        /\ metrics[1].Availability =
              FormatFixed(FMul(FDiv(player_current[1].games_played, F(GamesCap)), F(100)), 1)

\* C15 witness: both functions were called with an empty population for a
\* subject with 20 points per game and 50 games played
C15_Witness ==
    /\ pc = "engine_done"
    /\ league_stats = <<>>
    /\ player_current[1].points_per_game = F(20)
    /\ IsNaN(radar[1])
    /\ IsNaN(metrics[1].points_percentile)
    /\ metrics[1].Availability = F(61)

\* C11: in every result of the Player Search query two different players of the
\* same position with equal points (rebounds, assists) have the same points
\* (rebounds, assists) percentile, and two players with equal true shooting
\* have the same true-shooting percentile.
C11_EqualValuesSamePercentile ==
    \A k \in 1..Len(search_results) :
        \A a, b \in search_results[k] :
            a.Player # b.Player =>
                /\ (a.Pos = b.Pos /\ Eq(a.pts, b.pts)) => a.pts_percentile = b.pts_percentile
                /\ (a.Pos = b.Pos /\ Eq(a.trb, b.trb)) => a.trb_percentile = b.trb_percentile
                /\ (a.Pos = b.Pos /\ Eq(a.ast, b.ast)) => a.ast_percentile = b.ast_percentile
                /\ Eq(a.ts_pct[1], b.ts_pct[1]) => a.ts_percentile = b.ts_percentile

\* C20: two evaluations of the Player Search query over the same two source
\* tables return the same rows: the same players with the same percentiles and
\* the same g_league_category.
C20_QueryDeterministic ==
    Len(search_results) = 2 => search_results[1] = search_results[2]

\* C16: no loader call raises: with no client, and with a failing query, every
\* loader returns its empty result.
C16_LoadersReturnEmpty ==
    \A i \in 1..Len(loader_calls) : loader_calls[i].result # "raised"

\* C17: a page run in which a loader yielded an empty population, or raised,
\* ends on a no-data or error message and not on an exception.
C17_EmptyPopulationMessage ==
    run # <<>> =>
        /\ run[1].empty_population => run[1].outcome = "message"
        /\ (\E i \in 1..Len(loader_calls) : loader_calls[i].result = "raised") =>
              run[1].outcome = "message"

\* a page run that took place after the environment became valid loaded
\* non-empty data
LoadedAfterRepair == run # <<>> /\ run[1].repaired /\ run[1].loaded

\* C18: once the credentials and the warehouse have become valid for good, some
\* later page run loads non-empty data (the pages keep being visited and time
\* keeps passing; nothing restarts the process or clears a cache).
C18_Recoverable == repaired ~> LoadedAfterRepair

\* C19: no call of a cached loader returns a value that was fetched more than
\* 3600 seconds before the call.
C19_SnapshotAtMostOneHourOld ==
    \A i \in 1..Len(loader_calls) :
        loader_calls[i].hit => AgeSeconds(loader_calls[i].age) <= CacheTTL

\* the row satisfies the WHEN condition of both rules of final_classification
BothConditions(r) == StrugglingCondition(r) = "T" /\ WellRoundedCondition(r) = "T"

\* one of the three per-position percentiles of the row is exactly 25
SomeStatAt25(r) ==
    r.pts_percentile = 25 \/ r.trb_percentile = 25 \/ r.ast_percentile = 25

\* C21 as stated: no subject satisfies both rule 1 and rule 2 (the bands [0,25]
\* and [25,75] are disjoint), so the label is the same whichever rule comes first.
C21_Original ==
    pc = "classified" =>
        /\ ~BothConditions(cls_in[1])
        /\ g_league_category(cls_in[1]) = g_league_category_swapped(cls_in[1])

\* C21 as amended: the bands [0,25] and [25,75] share the percentile 25: a
\* subject satisfies both rules exactly when it satisfies rule 2 and one of its
\* points, rebounds or assists percentiles is 25; such a subject is labelled
\* 'NBA Struggling / G-League Potential', and for every other subject the rule
\* order does not decide the label.
C21_BandsShare25 ==
    pc = "classified" =>
        LET r == cls_in[1]
        IN  /\ BothConditions(r) <=> (Rule2(r) /\ SomeStatAt25(r))
            /\ BothConditions(r) => cls_out = "NBA Struggling / G-League Potential"
            /\ ~BothConditions(r) => cls_out = g_league_category_swapped(r)

\* C21 witness: points percentile 25 and the other percentiles strictly inside
\* (25, 75]: both rules' conditions hold and the order of the rules decides
C21_Witness ==
    /\ pc = "classified"
    /\ cls_in[1].pts_percentile = 25
    /\ cls_in[1].trb_percentile = 26
    /\ cls_in[1].ast_percentile = 75
    /\ cls_in[1].ts_percentile = 26
    /\ BothConditions(cls_in[1])
    /\ cls_out # g_league_category_swapped(cls_in[1])

\* C22: the table returned by load_player_data of Player Search holds at most
\* one row per player, whatever the two source tables hold.
C22_OneRowPerPlayer ==
    \A k \in 1..Len(search_results) :
        \A a, b \in search_results[k] : a.Player = b.Player => a = b

\* the positions of a script run at which the radar chart, the timeline, the
\* advanced metrics and the league rankings are computed next
ComputeStages == {"selected", "radar", "timeline", "metrics"}

\* C23: the radar chart, the timeline, the advanced metrics and the league
\* rankings leave the loaded table as it was: no step taken from one of these
\* positions changes df (the rank_* and season_clean columns go to copies).
C23_NoSideEffectOnPopulation ==
    [][(pc \in ComputeStages) => (df' = df)]_vars

\* C23 witness: a run that drew a timeline of two seasons and showed the ranks
\* ends with the table as loaded and the new columns only in the copies
C23_Witness ==
    /\ pc = "done"
    /\ shown # <<>>
    /\ radar # <<>>
    /\ metrics # <<>>
    /\ Len(timeline) = 2
    /\ timeline[1].season_clean = 2023
    /\ season_stats # <<>>
    /\ df = source
    /\ Len(df) = 3

\* the rank of row i of season_stats had the statistic been ranked with
\* rank(ascending=True)
AscendingRank(stat, i) == RankAscending(Column(SeasonRows, stat))[i]

\* row i of season_stats has a non-null value of the statistic that no other
\* row of the season shares
NotTied(stat, i) ==
    /\ ~IsNaN(season_stats[i].row[stat])
    /\ CountEqual(SeasonRows, stat, season_stats[i].row[stat]) = 1

\* the number of rows of the season with a strictly smaller value
CountUnder(stat, v) == Cardinality({j \in 1..Len(SeasonRows) : Lt(SeasonRows[j][stat], v)})

\* C24 as stated: ranking a statistic in ascending instead of descending order
\* changes the rank of every subject that is not tied with another subject.
C24_Original ==
    \A stat \in StatNames :
        \A i \in 1..Len(season_stats) :
            NotTied(stat, i) =>
                ~Eq(AscendingRank(stat, i), RankColumnOf(season_stats[i], stat))

\* C24 as amended: the ascending and the descending rank of every subject with
\* a non-null value add up to n + 1, n being the number of non-null values of
\* the season; so reversing the order changes the rank of a subject that is not
\* tied exactly when the number of values below its own differs from the
\* number above (it keeps its rank when it is the median, or alone).
C24_ReversedRanksMirror ==
    \A stat \in StatNames :
        \A i \in 1..Len(season_stats) :
            LET v == season_stats[i].row[stat]
                asc == AscendingRank(stat, i)
                desc == RankColumnOf(season_stats[i], stat)
                n == Cardinality(NonNull(Column(SeasonRows, stat)))
            IN  /\ IsNaN(v) => IsNaN(asc) /\ IsNaN(desc)
                /\ ~IsNaN(v) => Eq(Add(asc, desc), F(n + 1))
                /\ NotTied(stat, i) =>
                      (Eq(asc, desc) <=> CountUnder(stat, v) = CountAbove(SeasonRows, stat, v))

\* C24 witness: three distinct point values, the subject in the middle: rank 2
\* in descending and in ascending order, while the best subject moves from 1 to 3
C24_Witness ==
    /\ RanksShown
    /\ Len(season_stats) = 3
    /\ PairwiseDistinct(SeasonRows, "points_per_game")
    /\ \E i, j \in 1..3 :
          /\ season_stats[i].row = OwnRow
          /\ season_stats[i].rank_points = F(2)
          /\ AscendingRank("points_per_game", i) = F(2)
          /\ season_stats[j].rank_points = F(1)
          /\ AscendingRank("points_per_game", j) = F(3)

\* C28: on both player-profile pages, once a player and a reference season are
\* selected the player has a row in that season: player_current is not the
\* fallback row of another season, and the League Rankings lookup does not
\* raise IndexError on an empty selection.
C28_SelectedPlayerInSeason ==
    /\ selected_player # "" =>
          /\ WhereSeason(WherePlayer(df, selected_player), selected_season) # <<>>
          /\ player_current[1].season = selected_season
    /\ err # "IndexError"

\* get_bigquery_client has been called
AuthDone == Len(auth) = 1

\* GOOGLE_APPLICATION_CREDENTIALS is set and names an existing file
KeyFileExists == env.app_creds \in {"good_file", "bad_file"}

\* GOOGLE_SERVICE_ACCOUNT_KEY is set and non-empty
KeyJsonSet == env.key_json \in {"good", "malformed"}

\* C26: a call of get_bigquery_client tries exactly one credential source: the
\* key file when GOOGLE_APPLICATION_CREDENTIALS names an existing file, whatever
\* GOOGLE_SERVICE_ACCOUNT_KEY holds; otherwise the JSON key when that variable
\* is set and non-empty; otherwise application-default credentials.  A path of
\* a missing file is skipped and is no error; a client returned comes from the
\* source tried.
C26_CredentialPriority ==
    AuthDone =>
        LET a == auth[1]
        IN  /\ Len(a.tried) = 1
            /\ KeyFileExists => a.tried[1] = "key_file"
            /\ (~KeyFileExists /\ KeyJsonSet) => a.tried[1] = "key_json"
            /\ (~KeyFileExists /\ ~KeyJsonSet) => a.tried[1] = "default"
            /\ a.client # "None" => a.client = a.tried[1]
            /\ env.app_creds = "missing_file" =>
                  /\ env.key_json = "good" => a.client = "key_json"
                  /\ (~KeyJsonSet /\ env.adc) => a.client = "default"

\* C26 witness: both variables hold a valid key and the key file is the source
C26_Witness ==
    /\ AuthDone
    /\ env.app_creds = "good_file"
    /\ env.key_json = "good"
    /\ auth[1].tried = <<"key_file">>
    /\ auth[1].client = "key_file"

\* C27: get_bigquery_client never raises, and it returns None only when every
\* applicable method has failed: the key file (if the path names an existing
\* file), the JSON key (if set and non-empty) and the default credentials.
C27_FallsThroughOnFailure ==
    AuthDone =>
        /\ ~auth[1].raised
        /\ auth[1].client = "None" =>
              /\ env.app_creds # "good_file"
              /\ env.key_json # "good"
              /\ ~env.adc

\* the column name of the blob is one that clean_column_name returns
AlreadyCleaned == \E h \in Headers : header = clean_column_name(read_csv_column(h))

\* C30: clean_column_name is idempotent, clean(clean(h)) = clean(h) for every
\* column name h the script reads, and a run of the script over a file whose
\* column name is already a cleaned one does not rewrite the file.
C30_CleanIdempotent ==
    \A k \in 1..Len(cleanings) :
        /\ clean_column_name(cleanings[k].cleaned) = cleanings[k].cleaned
        /\ AlreadyCleaned => ~cleanings[k].rewritten

\* the written number has at most d decimals
DecimalsAtMost(f, d) == (f[1] * 10^d) % f[2] = 0

\* the written number f is the value x rounded to d decimals: at most d
\* decimals, and within one unit of the last decimal of x (half a unit for the
\* rounding, the rest for the float operations that carry it out)
RoundedTo(f, x, d) ==
    /\ DecimalsAtMost(f, d)
    /\ LET k == (f[1] * 10^d) \div f[2]
       IN  Abs(k * x[2] - x[1] * 10^d) <= x[2]

\* C25: every CSV export writes minutes, points, rebounds and assists per game
\* rounded to one decimal and the true shooting ratio rounded to three decimals.
C25_ExportRounded ==
    export_out # <<>> =>
        /\ RoundedTo(export_out[1].minutes, export_in[1].minutes, 1)
        /\ RoundedTo(export_out[1].points, export_in[1].points, 1)
        /\ RoundedTo(export_out[1].rebounds, export_in[1].rebounds, 1)
        /\ RoundedTo(export_out[1].assists, export_in[1].assists, 1)
        /\ RoundedTo(export_out[1].ts_pct, export_in[1].ts_pct, 3)

\* C29: a Player Search run in which the data loaded and at least one player
\* passes the filters is not ended by an exception, and when it has ended the
\* Overview charts, then the table and the export button have been drawn.
C29_ReachesDetailedList ==
    (page = "Player_Search" /\ filtered_df # <<>>) =>
        /\ pc # "error"
        /\ pc = "done" => rendered = <<"pie", "bar", "table", "export_button">>

====
